---------------------------- MODULE Spec2Model ----------------------------
(***************************************************************************)
(* A model of numblr's feed aggregation and caching engine:                *)
(*   - feed.Merge / merger.Next          (src/feed/feed.go)                *)
(*   - database.OpenCached, databaseCaching, databaseCached                *)
(*                                       (src/feed/database/database.go)   *)
(*   - Search.Matches and the pushed-down queries (src/feed/search.go)     *)
(*   - HandleTumblr, the refresher and the in-memory cache (src/numblr.go) *)
(*   - anything.Open                 (src/feed/anything/anything.go)       *)
(* The specifications share the variables; each drives one part of the     *)
(* program and leaves the others idle.                                     *)
(***************************************************************************)
EXTENDS Integers, Sequences, FiniteSets, TLC

VARIABLES
    \* ---- merger (feed.go:82-86) ----
    mFeeds,      \* m.feeds: for each child, what its Next calls will still return
    mPosts,      \* m.posts: the head slot of each child (a post or NoPost)
    mErrors,     \* m.errors: the error slot of each child
    mPc,         \* where merger.Next stands: "idle" or "fetching"
    mPending,    \* children whose goroutine of this Next has not run yet
    mEmitted,    \* the posts merger.Next has returned, in order
    mResult,     \* what the last merger.Next returned
    mEOFs,       \* how many times merger.Next has returned end-of-feed
    mClosed,     \* merger.Close has been called
    mScripts,    \* the children as constructed (never changes)
    \* ---- durable cache (database.go) ----
    feedInfos,   \* table feed_infos: name -> row or NoRow
    postsTable,  \* table posts: set of rows, unique by (source, name, id)
    handles,     \* one entry per OpenCached call: the feed it returned
    tasks,       \* the error-recording goroutines started and not yet run
    now,         \* the wall clock, in ticks
    lastCall,    \* the call made by the last step: its inputs and what it did
    \* ---- search over a cached feed (search.go, database.go:169-206) ----
    sRows,       \* the rows of table posts of one author
    sSearch,     \* the feed.Search of the request
    sPc,         \* "start", "pushed" (read through the query) or "done"
    sPushed,     \* posts read through the pushed-down query that Matches kept
    sMemory,     \* posts of the feed that Matches kept, all read in memory
    \* ---- paging through a cached feed (database.go:173-179) ----
    pRows,       \* the rows of table posts
    pBefore,     \* search.BeforeID
    pNoReblogs,  \* search.NoReblogs
    pPc,         \* "idle", "start" or "read"
    pOut,        \* the rows the cached feed delivered, in order
    \* ---- one request to HandleTumblr (numblr.go:3745-3929) ----
    hMerged,     \* what the calls of mergedFeeds.Next will return, in order
    hBefore,     \* search.BeforeID, 0 when empty
    hLimit,      \* limit
    hPc,         \* where the handler stands
    hPos,        \* how many results of mergedFeeds.Next have been consumed
    hPost,       \* post: its position in hMerged, 0 for nil
    hErr,        \* err # nil
    hPage,       \* posts: the positions in hMerged of the collected posts
    hOpened,     \* the selected feeds whose anything.Open succeeded
    hCloses,     \* how often each selected feed has been closed
    \* ---- the background refresher (numblr.go:3345-3404) ----
    rTicks,      \* one refreshFn goroutine per tick
    rSem,        \* len(maxConcurrentFeeds)
    \* ---- concurrent tasks on the shared store (part_014:39-108) ----
    cTasks,      \* one entry per task: where it stands and what it got
    cLock,       \* the task whose transaction holds the write lock, 0 if none
    cInfos,      \* the names that have a row in feed_infos
    cCkpts,      \* 1 once a WAL checkpoint has run among the tasks' steps
    \* ---- the dispatcher (anything.go:19-38) ----
    aName,       \* the name anything.Open is called with, as characters
    aPc,         \* "idle", "start" or "done"
    aCached,     \* the adapters cacheFn has been called with, in order
    aDirect,     \* how often anything.Open has called an adapter itself
    \* ---- one call of Search.Matches (search.go:58-108) ----
    qSearch,     \* the receiver, a feed.Search
    qPost,       \* the post p
    qPc,         \* "idle", "start" or "done"
    qResult,     \* what Matches returned
    \* ---- the in-memory cache (numblr.go:1469-1544) ----
    lCache,      \* cache: the entries of the LRU, most recently used first
    lFeeds,      \* one entry per NewCached call: the feed it returned
    lNow,        \* the wall clock, in ticks
    lLast,       \* the call made by the last step and what it did
    \* ---- one call of ParseTerms (part_013:141-248) ----
    tInput,      \* the raw search ParseTerms was called with, as characters
    tRaw,        \* rawSearch: what is still to be parsed
    tSearch,     \* search: the lists and flags filled so far
    tPc,         \* "idle", "loop", "done" or "panic"
    \* ---- grouping the posts of a page (numblr.go:3931-3941, 4359-4376) ----
    gPosts,      \* posts: the posts collected for the page
    gSize,       \* groupPostsNumber
    gIn,         \* the posts the last call of nextPostsGroup was given
    gGroup,      \* group, as the last call returned it
    gRest,       \* rest, as the last call returned it
    gGroups,     \* postGroups
    gPc,         \* "idle", "start", "loop" or "done"
    \* ---- following the next-page link (numblr.go:3899-3929, 4181-4190) ----
    nFeed,       \* the ids of the posts of the feed, newest first
    nLimit,      \* limit
    nModes,      \* how each of the two requests was served: "live" or "cache"
    nPage1,      \* the ids of the posts of the first page
    nLast,       \* lastPost.ID after the first page, 0 for nil
    nPage2,      \* the ids of the posts of the page the link leads to
    nPc,         \* "idle", "start", "page1" or "page2"
    \* ---- the refresher on the durable cache (numblr.go:3344-3404) ----
    bUp,         \* the upstream of foo: whether it answers, and the feed it delivers
    bPc,         \* refreshFn: "off", "idle", "next" or "iterate"
    bLeft,       \* the stale names refreshFn has still to refresh
    bName,       \* the name being refreshed
    bH,          \* the handle of the feed being refreshed
    bAt,         \* when the running refreshFn listed the stale names
    bDone,       \* for every name, when the refreshFn that last processed it started, -1 for never
    \* ---- the open tasks of a request (numblr.go:3745-3849) ----
    oOk,         \* for every selected feed, whether anything.Open succeeds
    oPc,         \* where the goroutine of every selected feed is
    oFeeds,      \* the indices i with feeds[i] not nil
    oErr,        \* err: 0 for nil, i for the error of feed i
    oInfo,       \* the selected feeds that have an entry in feedInfo
    oHandler,    \* where the handler is
    oMerged,     \* the feeds given to feed.Merge
    oReport      \* the error written to the response: none, or err and how many more

mvars == <<mFeeds, mPosts, mErrors, mPc, mPending, mEmitted, mResult, mEOFs, mClosed,
           mScripts>>
dbvars == <<feedInfos, postsTable, handles, tasks, now, lastCall>>
vars == <<mFeeds, mPosts, mErrors, mPc, mPending, mEmitted, mResult, mEOFs, mClosed,
          mScripts, feedInfos, postsTable, handles, tasks, now, lastCall,
          sRows, sSearch, sPc, sPushed, sMemory,
          pRows, pBefore, pNoReblogs, pPc, pOut,
          hMerged, hBefore, hLimit, hPc, hPos, hPost, hErr, hPage, hOpened, hCloses,
          rTicks, rSem, cTasks, cLock, cInfos, cCkpts,
          aName, aPc, aCached, aDirect,
          qSearch, qPost, qPc, qResult, lCache, lFeeds, lNow, lLast,
          tInput, tRaw, tSearch, tPc,
          gPosts, gSize, gIn, gGroup, gRest, gGroups, gPc,
          nFeed, nLimit, nModes, nPage1, nLast, nPage2, nPc,
          bUp, bPc, bLeft, bName, bH, bAt, bDone,
          oOk, oPc, oFeeds, oErr, oInfo, oHandler, oMerged, oReport>>
svars == <<sRows, sSearch, sPc, sPushed, sMemory>>
pvars == <<pRows, pBefore, pNoReblogs, pPc, pOut>>
hvars == <<hMerged, hBefore, hLimit, hPc, hPos, hPost, hErr, hPage, hOpened, hCloses>>
rvars == <<rTicks, rSem>>
cvars == <<cTasks, cLock, cInfos, cCkpts>>
avars == <<aName, aPc, aCached, aDirect>>
qvars == <<qSearch, qPost, qPc, qResult>>
lvars == <<lCache, lFeeds, lNow, lLast>>
tvars == <<tInput, tRaw, tSearch, tPc>>
gvars == <<gPosts, gSize, gIn, gGroup, gRest, gGroups, gPc>>
nvars == <<nFeed, nLimit, nModes, nPage1, nLast, nPage2, nPc>>
bvars == <<bUp, bPc, bLeft, bName, bH, bAt, bDone>>
ovars == <<oOk, oPc, oFeeds, oErr, oInfo, oHandler, oMerged, oReport>>

\* what the steps of one part of the program leave alone
notMerge == <<dbvars, svars, pvars, hvars, rvars, cvars, avars, qvars, lvars, tvars, gvars, nvars, bvars, ovars>>
notDb == <<mvars, svars, pvars, hvars, rvars, cvars, avars, qvars, lvars, tvars, gvars, nvars, bvars, ovars>>
notSearch == <<mvars, dbvars, pvars, hvars, rvars, cvars, avars, qvars, lvars, tvars, gvars, nvars, bvars, ovars>>
notPage == <<mvars, dbvars, svars, hvars, rvars, cvars, avars, qvars, lvars, tvars, gvars, nvars, bvars, ovars>>
notHandler == <<mvars, dbvars, svars, pvars, rvars, cvars, avars, qvars, lvars, tvars, gvars, nvars, bvars, ovars>>
notRefresher == <<mvars, dbvars, svars, pvars, hvars, cvars, avars, qvars, lvars, tvars, gvars, nvars, bvars, ovars>>
notTasks == <<mvars, dbvars, svars, pvars, hvars, rvars, avars, qvars, lvars, tvars, gvars, nvars, bvars, ovars>>
notDispatch == <<mvars, dbvars, svars, pvars, hvars, rvars, cvars, qvars, lvars, tvars, gvars, nvars, bvars, ovars>>
notMatch == <<mvars, dbvars, svars, pvars, hvars, rvars, cvars, avars, lvars, tvars, gvars, nvars, bvars, ovars>>
notLru == <<mvars, dbvars, svars, pvars, hvars, rvars, cvars, avars, qvars, tvars, gvars, nvars, bvars, ovars>>
notParse == <<mvars, dbvars, svars, pvars, hvars, rvars, cvars, avars, qvars, lvars, gvars, nvars, bvars, ovars>>
notGroup == <<mvars, dbvars, svars, pvars, hvars, rvars, cvars, avars, qvars, lvars, tvars, nvars, bvars, ovars>>
notFollow == <<mvars, dbvars, svars, pvars, hvars, rvars, cvars, avars, qvars, lvars, tvars, gvars, bvars, ovars>>
notBackground == <<mvars, svars, pvars, hvars, rvars, cvars, avars, qvars, lvars, tvars, gvars, nvars, ovars>>
notOpens == <<mvars, dbvars, svars, pvars, hvars, rvars, cvars, avars, qvars, lvars, tvars, gvars, nvars, bvars>>

Nil == "nil"

\* the elements of a sequence
Range(s) == {s[k] : k \in 1..Len(s)}

(***************************************************************************)
(* Bounds of the model.                                                    *)
(***************************************************************************)
MaxLen == 2       \* longest child script of the merger
MaxDate == 2      \* dates of merger posts are 1..MaxDate
MaxEOFs == 2      \* merger.Next is called until it has returned EOF this often

(***************************************************************************)
(* Merger: src/feed/feed.go                                                *)
(***************************************************************************)
FeedIdx == {1, 2}

\* Feed.Name() of child i
FeedName(i) == IF i = 1 THEN "a" ELSE "b"

\* What a child's Next can return besides end-of-feed: a post or an error
\* (tumblrRSS.Next returns "invalid date" for one item and goes on with the
\* next item on the following call).
\* a nil *Post
NoPost == [kind |-> "nil", id |-> 0, date |-> 0, author |-> "", feed |-> 0]

ErrItem == [kind |-> "err", id |-> 0, date |-> 0, author |-> "", feed |-> 0]
PostItem(i, k, d) == [kind |-> "post", id |-> k, date |-> d, author |-> "orig", feed |-> i]

RawScripts == UNION {[1..n -> (1..MaxDate) \cup {0}] : n \in 0..MaxLen}

\* date 0 in a raw script stands for an error
Script(i, raw) ==
    [k \in 1..Len(raw) |-> IF raw[k] = 0 THEN ErrItem ELSE PostItem(i, k, raw[k])]

\* Static.Next (and any adapter's Next): the result and the feed afterwards
ChildNext(f) ==
    IF Len(f) = 0
    THEN [post |-> NoPost, err |-> "EOF", rest |-> f]
    ELSE IF f[1].kind = "post"
         THEN [post |-> f[1], err |-> Nil, rest |-> Tail(f)]
         ELSE [post |-> NoPost, err |-> "error", rest |-> Tail(f)]

\* feed.go:115-118: allErrors starts false and is and-ed with every slot
RECURSIVE AllErrorsLoop(_, _)
AllErrorsLoop(i, acc) ==
    IF i \notin FeedIdx THEN acc
    ELSE AllErrorsLoop(i + 1, acc /\ mErrors[i] # Nil)

AllErrors == AllErrorsLoop(1, FALSE)

\* feed.go:135-147: the first slot holding the latest date, 0 when all are nil
RECURSIVE PickLoop(_, _)
PickLoop(i, best) ==
    IF i \notin FeedIdx THEN best
    ELSE IF mPosts[i] = NoPost THEN PickLoop(i + 1, best)
    ELSE IF best = 0 \/ mPosts[i].date > mPosts[best].date THEN PickLoop(i + 1, i)
    ELSE PickLoop(i + 1, best)

PostIdx == PickLoop(1, 0)

InitMergerIdle ==
    /\ mFeeds = [i \in FeedIdx |-> <<>>]
    /\ mScripts = [i \in FeedIdx |-> <<>>]
    /\ mPosts = [i \in FeedIdx |-> NoPost]
    /\ mErrors = [i \in FeedIdx |-> Nil]
    /\ mPc = "idle"
    /\ mPending = {}
    /\ mEmitted = <<>>
    /\ mResult = "none"
    /\ mEOFs = 0
    /\ mClosed = FALSE

\* feed.Merge(feeds...), feed.go:78-80
InitMerger ==
    /\ \E r1 \in RawScripts, r2 \in RawScripts :
          mScripts = [i \in FeedIdx |-> IF i = 1 THEN Script(1, r1) ELSE Script(2, r2)]
    /\ mFeeds = mScripts
    /\ mPosts = [i \in FeedIdx |-> NoPost]
    /\ mErrors = [i \in FeedIdx |-> Nil]
    /\ mPc = "idle"
    /\ mPending = {}
    /\ mEmitted = <<>>
    /\ mResult = "none"
    /\ mEOFs = 0
    /\ mClosed = FALSE

\* merger.Next, feed.go:114-133: the allErrors check, then one goroutine per child
MergeNextBegin ==
    /\ mPc = "idle"
    /\ mEOFs < MaxEOFs
    /\ IF AllErrors
       THEN /\ mResult' = "error"
            /\ UNCHANGED <<mPc, mPending>>
       ELSE /\ mPc' = "fetching"
            /\ mPending' = FeedIdx
            /\ mResult' = "none"
    /\ UNCHANGED <<mFeeds, mPosts, mErrors, mEmitted, mEOFs, mClosed, mScripts>>

\* a goroutine that calls its child whatever the slots hold
MergeChildFetchAlways(i) ==
    /\ mPc = "fetching"
    /\ i \in mPending
    /\ mPending' = mPending \ {i}
    /\ LET r == ChildNext(mFeeds[i]) IN
       /\ mPosts' = [mPosts EXCEPT ![i] = r.post]
       /\ mErrors' = [mErrors EXCEPT ![i] = r.err]
       /\ mFeeds' = [mFeeds EXCEPT ![i] = r.rest]
    /\ UNCHANGED <<mPc, mEmitted, mResult, mEOFs, mClosed, mScripts>>

\* feed.go:126-131: the goroutine of child i
MergeChildFetch(i) ==
    /\ mPc = "fetching"
    /\ i \in mPending
    /\ mPending' = mPending \ {i}
    /\ IF mPosts[i] = NoPost /\ mErrors[i] # "EOF"
       THEN LET r == ChildNext(mFeeds[i]) IN
            /\ mPosts' = [mPosts EXCEPT ![i] = r.post]
            /\ mErrors' = [mErrors EXCEPT ![i] = r.err]
            /\ mFeeds' = [mFeeds EXCEPT ![i] = r.rest]
       ELSE UNCHANGED <<mPosts, mErrors, mFeeds>>
    /\ UNCHANGED <<mPc, mEmitted, mResult, mEOFs, mClosed, mScripts>>

\* feed.go:133-155: after wg.Wait(), pick the head with the latest date
MergeNextSelect ==
    /\ mPc = "fetching"
    /\ mPending = {}
    /\ mPc' = "idle"
    /\ IF PostIdx = 0
       THEN /\ mResult' = "EOF"
            /\ mEOFs' = mEOFs + 1
            /\ UNCHANGED <<mPosts, mEmitted>>
       ELSE /\ mResult' = "post"
            /\ mEmitted' = Append(mEmitted,
                                  [mPosts[PostIdx] EXCEPT !.author = FeedName(PostIdx)])
            /\ mPosts' = [mPosts EXCEPT ![PostIdx] = NoPost]
            /\ UNCHANGED mEOFs
    /\ UNCHANGED <<mFeeds, mErrors, mPending, mClosed, mScripts>>

\* merger.Close, feed.go:158-164: it closes every child; Static.Close
\* (feed.go:204-206) does nothing and returns nil, so the children keep the
\* posts they have not returned yet
MergeClose ==
    /\ mPc = "idle"
    /\ ~mClosed
    /\ mClosed' = TRUE
    /\ UNCHANGED <<mFeeds, mPosts, mErrors, mPc, mPending, mEmitted, mResult, mEOFs,
                   mScripts>>

(***************************************************************************)
(* Durable cache: src/feed/database/database.go                            *)
(***************************************************************************)
MaxTime == 2      \* the clock stops here

\* OpenCached is called at most twice in a behaviour: handles has these slots
HandleIds == {1, 2}

\* CacheTime is 10 minutes (numblr.go:3270); one tick of the clock is 10 minutes.
CacheTime == 1

\* LIMIT 20 of every posts query in OpenCached
QueryLimit == 20

\* The names a caller asks for.  tumblr.Open cuts the name at the first "@"
\* (part_015:24-27), so the adapter opened for "foo@tumblr" reports "foo".
ReqNames == {"foo", "foo@tumblr"}

Canon(name) == IF name = "foo@tumblr" THEN "foo" ELSE name

NoRow == [cachedAt |-> -1, error |-> Nil]

\* feed.Post as the tumblr adapter builds it (part_015:134-165): Source is
\* "tumblr", Author the adapter's name; id 0 stands for the empty ID.
Post(name, source, id, date, tags) ==
    [source |-> source, id |-> id, author |-> name, date |-> date, tags |-> tags]

GoodPost(name, id) ==
    Post(name, "tumblr", id, id, IF id = 1 THEN <<"art">> ELSE <<>>)

\* The feeds an upstream adapter can deliver for a name: newest first.
UpstreamFeeds(name) ==
    { <<>>,
      <<GoodPost(name, 1)>>,
      <<GoodPost(name, 2), GoodPost(name, 1)>>,
      <<GoodPost(name, 2), Post(name, "tumblr", 0, 1, <<>>)>>,
      <<Post(name, "", 2, 2, <<>>), GoodPost(name, 1)>> }

\* How the upstream open can end.  The adapters pass ctx to their HTTP request,
\* so an expired deadline shows as an error: "deadline" is the expiry of the
\* 150 ms deadline OpenCached derives, "callerDeadline" the expiry of the
\* caller's own deadline.  "timeout" is an error isTimeoutError accepts, "404"
\* a feed.StatusError with code 404, "nohost" a "no such host" failure.
UpstreamErrors == {"deadline", "callerDeadline", "timeout", "404", "nohost", "other"}

\* json.Marshal(post.Tags) and json.Unmarshal(tags, &post.Tags), as token lists
MarshalTags(tags) == IF tags = <<>> THEN <<"null">> ELSE <<"[">> \o tags \o <<"]">>

UnmarshalTags(js) == IF js = <<"null">> THEN <<>> ELSE SubSeq(js, 2, Len(js) - 1)

\* a row of table posts as Save writes it (database.go:401)
PostRow(uname, post) ==
    [source |-> post.source, name |-> uname, id |-> post.id, author |-> post.author,
     tags |-> MarshalTags(post.tags), date |-> post.date]

RowKey(row) == <<row.source, row.name, row.id>>

\* INSERT OR REPLACE INTO posts of one row
InsertOrReplace(table, row) ==
    {r \in table : RowKey(r) # RowKey(row)} \cup {row}

\* a Save whose statement holds the first value tuple only
InsertFirstOnly(table, uname, ps) ==
    IF ps = <<>> THEN table ELSE InsertOrReplace(table, PostRow(uname, Head(ps)))

RECURSIVE InsertAll(_, _, _)
InsertAll(table, uname, ps) ==
    IF ps = <<>> THEN table
    ELSE InsertAll(InsertOrReplace(table, PostRow(uname, Head(ps))), uname, Tail(ps))

\* ORDER BY date DESC
RECURSIVE OrderByDateDesc(_)
OrderByDateDesc(rows) ==
    IF rows = {} THEN <<>>
    ELSE LET top == CHOOSE r \in rows : \A q \in rows : q.date <= r.date
         IN <<top>> \o OrderByDateDesc(rows \ {top})

Limit(s, n) == IF Len(s) <= n THEN s ELSE SubSeq(s, 1, n)

\* SELECT ... FROM posts WHERE author = ? ORDER BY date DESC LIMIT 20
\* (database.go:194, 241, 292)
QueryPosts(table, name) ==
    Limit(OrderByDateDesc({r \in table : r.author = name}), QueryLimit)

\* isTimeoutError (database.go:313-325) and the ctx.Err() test of line 234
IsTimeoutError(err) == err = "timeout"

CtxDeadlineExceeded(err) == err \in {"deadline", "callerDeadline"}

\* a Save that checks the id of a post and not its source
RECURSIVE ValidateIdOnly(_)
ValidateIdOnly(ps) ==
    IF ps = <<>> THEN ""
    ELSE IF Head(ps).id = 0 THEN "empty post id"
    ELSE ValidateIdOnly(Tail(ps))

\* the first invalid post stops Save (database.go:388-393)
RECURSIVE ValidatePosts(_)
ValidatePosts(ps) ==
    IF ps = <<>> THEN ""
    ELSE IF Head(ps).id = 0 THEN "empty post id"
    ELSE IF Head(ps).source = "" THEN "empty post source"
    ELSE ValidatePosts(Tail(ps))

\* What the successive tx.Commit() calls of one Save return: "busy" is a
\* failure that errors.Is(err, &sqlite3.ErrBusy) accepts (database.go:425),
\* "error" any other failure.
CommitResults ==
    { <<"ok">>, <<"busy", "ok">>, <<"busy", "busy", "ok">>, <<"busy", "busy", "busy">>,
      <<"error">>, <<"busy", "error">>, <<"busy", "busy", "error">> }

\* a commit loop that retries after any failure (a failure that is not
\* "busy" repeats itself)
RECURSIVE CommitLoopRetryAny(_, _, _)
CommitLoopRetryAny(results, i, err) ==
    IF ~(i < 3) THEN [err |-> err, tries |-> i]
    ELSE IF i >= Len(results) THEN CommitLoopRetryAny(results, i + 1, err)
    ELSE IF results[i + 1] # "ok" THEN CommitLoopRetryAny(results, i + 1, results[i + 1])
    ELSE [err |-> "ok", tries |-> i + 1]

\* the commit loop of Save (database.go:417-435), i counting from 0 as there
RECURSIVE CommitLoop(_, _, _)
CommitLoop(results, i, err) ==
    IF ~(i < 3) THEN [err |-> err, tries |-> i]
    ELSE IF results[i + 1] = "busy" THEN CommitLoop(results, i + 1, "busy")
    ELSE [err |-> results[i + 1], tries |-> i + 1]

\* A feed handle.  kind "cached" is a *databaseCached (database.go:449-458),
\* "caching" a *databaseCaching (database.go:331-336), "error" stands for a
\* call that returned an error and no feed.  posts is ct.posts for a caching
\* feed; for a cached feed it records the posts Next has returned.
\* txRollbacks counts the calls of tx.Rollback() on the read-only transaction
\* of the OpenCached call (the deferred cleanup of database.go:139-147 runs
\* it before the return unless a cached feed takes it over as dc.cancel);
\* pendingTimer tells whether the context timer that *cancel stands for is
\* still armed, rowsOpen whether dc.rows is open, uncachedCloses counts the
\* calls of ct.uncached.Close().
Handle(name, kind, notes, outOfDate, rows, uncached) ==
    [kind |-> kind, name |-> name, uname |-> Canon(name),
     notes |-> notes, outOfDate |-> outOfDate, rows |-> rows,
     uncached |-> uncached, cachedAt |-> IF kind = "caching" THEN now ELSE 0,
     posts |-> <<>>, last |-> "none",
     state |-> IF kind = "error" THEN "failed" ELSE "open",
     closeErr |-> "", closedAt |-> 0,
     txRollbacks |-> IF kind = "cached" THEN 0 ELSE 1,
     pendingTimer |-> FALSE, rowsOpen |-> kind = "cached",
     uncachedCloses |-> 0]

ErrorHandle(name) == Handle(name, "error", <<>>, FALSE, <<>>, <<>>)

\* What one call did: op is "open", "next" or "close", h the handle; an open
\* records its arguments, the feed_infos row it read, what the upstream open
\* returned ("notcalled" when it was not invoked) and the error it returned;
\* a close records the commit attempts made, what the tx.Commit() calls return
\* and the error it returned.  op "record" is a run of the error-recording
\* goroutine.  wtx counts the write transactions the call began.
NoCall ==
    [op |-> "none", h |-> 0, forceFresh |-> FALSE, hasTimeout |-> FALSE, row |-> NoRow,
     upstream |-> "notcalled", err |-> "", tries |-> 0, commits |-> <<>>, wtx |-> 0,
     derived |-> FALSE]

NextCall(h) == [NoCall EXCEPT !.op = "next", !.h = h]

CloseCall(h, err, tries, commits, wtx) ==
    [NoCall EXCEPT !.op = "close", !.h = h, !.err = err, !.tries = tries,
                   !.commits = commits, !.wtx = wtx]

\* a run of the goroutine of database.go:251-283: err is "" when its update
\* was committed or it returned at line 257, "update tx" when it gave up
RecordCall(err, wtx) == [NoCall EXCEPT !.op = "record", !.err = err, !.wtx = wtx]

IsCached(name) == feedInfos[name] # NoRow

\* an OpenCached that serves the cache only while it is fresh
ServeCachedFreshOnly(name, forceFresh) ==
    ~forceFresh /\ IsCached(name) /\ now - feedInfos[name].cachedAt < CacheTime

\* database.go:169
ServeCached(name, forceFresh) ==
    /\ ~forceFresh
    /\ \/ IsCached(name) /\ now - feedInfos[name].cachedAt < CacheTime
       \/ feedInfos[name].error # Nil /\ feedInfos[name].error # ""

\* an OpenCached that derives the deadline under ForceFresh too
DerivesDeadlineForced(name, forceFresh, hasTimeout) ==
    ~hasTimeout /\ IsCached(name)

\* database.go:164-167: the 150 ms deadline for the upstream attempt
DerivesDeadline(name, forceFresh, hasTimeout) ==
    ~forceFresh /\ ~hasTimeout /\ IsCached(name)

\* a call of OpenCached; derived tells whether ctx was replaced by the
\* context with the 150 ms deadline (database.go:166)
OpenCall(name, forceFresh, hasTimeout, row, upstream, err) ==
    [op |-> "open", h |-> Len(handles) + 1, forceFresh |-> forceFresh,
     hasTimeout |-> hasTimeout, row |-> row, upstream |-> upstream, err |-> err,
     tries |-> 0, commits |-> <<>>, wtx |-> 0,
     derived |-> DerivesDeadline(name, forceFresh, hasTimeout)]

\* the errors the upstream open can return under the context it is given
OutcomesUnder(name, forceFresh, hasTimeout) ==
    {e \in UpstreamErrors :
        /\ e = "deadline" => DerivesDeadline(name, forceFresh, hasTimeout)
        /\ e = "callerDeadline" => hasTimeout}

\* an OpenCached that looks at the error only and not at ctx.Err()
TimeoutFallbackErrOnly(name, forceFresh, err) ==
    ~forceFresh /\ IsCached(name) /\ IsTimeoutError(err)

\* database.go:234
TimeoutFallback(name, forceFresh, err) ==
    ~forceFresh /\ IsCached(name) /\ (CtxDeadlineExceeded(err) \/ IsTimeoutError(err))

\* database.go:286
NotFoundFallback(name, err) == err = "404"

\* the notes of a feed served from the store, database.go:170 and 201-203
CachedNotes(row) ==
    IF row.error # Nil /\ row.error # ""
    THEN << <<"cached-by-error: ", row.error>> >>
    ELSE <<"cached">>

\* the goroutine of database.go:251-283, as started
ErrorTask(name, err) == [name |-> name, err |-> err, isCached |-> IsCached(name)]

\* an OpenCached that stamps the row it serves
OpenCachedHitTouch(name, forceFresh, hasTimeout) ==
    /\ Len(handles) + 1 \in HandleIds
    /\ ServeCached(name, forceFresh)
    /\ handles' = Append(handles,
           [Handle(name, "cached", CachedNotes(feedInfos[name]), FALSE,
                   QueryPosts(postsTable, name), <<>>)
               EXCEPT !.pendingTimer = DerivesDeadline(name, forceFresh, hasTimeout)])
    /\ lastCall' = OpenCall(name, forceFresh, hasTimeout, feedInfos[name], "notcalled", "")
    /\ feedInfos' = [feedInfos EXCEPT ![name].cachedAt = now]
    /\ UNCHANGED <<postsTable, tasks, now>>

\* OpenCached, database.go:129-206: the feed is served from the store
OpenCachedHit(name, forceFresh, hasTimeout) ==
    /\ Len(handles) + 1 \in HandleIds
    /\ ServeCached(name, forceFresh)
    /\ handles' = Append(handles,
           [Handle(name, "cached", CachedNotes(feedInfos[name]), FALSE,
                   QueryPosts(postsTable, name), <<>>)
               EXCEPT !.pendingTimer = DerivesDeadline(name, forceFresh, hasTimeout)])
    /\ lastCall' = OpenCall(name, forceFresh, hasTimeout, feedInfos[name], "notcalled", "")
    /\ UNCHANGED <<feedInfos, postsTable, tasks, now>>

\* OpenCached, database.go:220-226 and 305-310: the upstream opens
OpenCachedFresh(name, forceFresh, hasTimeout, upfeed) ==
    /\ Len(handles) + 1 \in HandleIds
    /\ ~ServeCached(name, forceFresh)
    /\ handles' = Append(handles, Handle(name, "caching", <<>>, FALSE, <<>>, upfeed))
    /\ lastCall' = OpenCall(name, forceFresh, hasTimeout, feedInfos[name], "ok", "")
    /\ UNCHANGED <<feedInfos, postsTable, tasks, now>>

\* the feed of the fallbacks of database.go:234-249 and 285-300.  Their query
\* runs under fallbackCtx, a child of the caller's context: it fails once that
\* context has expired.
FallbackFeed(name, err, note) ==
    IF err = "callerDeadline"
    THEN ErrorHandle(name)
    ELSE Handle(name, "cached", <<note>>, TRUE, QueryPosts(postsTable, name), <<>>)

\* OpenCached, database.go:226-303: the upstream open fails with err
OpenCachedFail(name, forceFresh, hasTimeout, err) ==
    /\ Len(handles) + 1 \in HandleIds
    /\ ~ServeCached(name, forceFresh)
    /\ err \in OutcomesUnder(name, forceFresh, hasTimeout)
    /\ LET feed == IF TimeoutFallback(name, forceFresh, err)
                   THEN FallbackFeed(name, err, "timeout")
                   ELSE IF NotFoundFallback(name, err)
                   THEN FallbackFeed(name, err, "not-found")
                   ELSE ErrorHandle(name)
           ret == IF feed.kind # "error" THEN ""
                  ELSE IF TimeoutFallback(name, forceFresh, err)
                          \/ NotFoundFallback(name, err)
                  THEN "querying posts"
                  ELSE "open uncached"
       IN \* database.go:229-232: without ForceFresh the fallback query runs
          \* under a 500 ms timer, which the returned feed keeps as dc.cancel
          /\ handles' = Append(handles,
                 IF feed.kind = "cached"
                 THEN [feed EXCEPT !.pendingTimer = ~forceFresh]
                 ELSE feed)
          /\ lastCall' = OpenCall(name, forceFresh, hasTimeout, feedInfos[name], err, ret)
    /\ tasks' = IF TimeoutFallback(name, forceFresh, err)
                THEN tasks
                ELSE tasks \cup {ErrorTask(name, err)}
    /\ UNCHANGED <<feedInfos, postsTable, now>>

\* an error-recording goroutine without the test of line 256
RecordErrorAlways(task, wrote) ==
    /\ task \in tasks
    /\ tasks' = tasks \ {task}
    /\ IF wrote
       THEN /\ feedInfos' = [feedInfos EXCEPT ![task.name] =
                                 [cachedAt |-> now, error |-> task.err]]
            /\ lastCall' = RecordCall("", 1)
       ELSE /\ UNCHANGED feedInfos
            /\ lastCall' = RecordCall("update tx", 1)
    /\ UNCHANGED <<postsTable, handles, now>>

\* the goroutine of database.go:251-283: it records the error in feed_infos,
\* unless the feed was unknown and the host does not exist; wrote is whether
\* its transaction went through (it only logs when it did not)
RecordError(task, wrote) ==
    /\ task \in tasks
    /\ tasks' = tasks \ {task}
    /\ IF ~task.isCached /\ task.err = "nohost"
       THEN /\ UNCHANGED feedInfos
            /\ lastCall' = RecordCall("", 0)
       ELSE IF wrote
       THEN /\ feedInfos' = [feedInfos EXCEPT ![task.name] =
                                 [cachedAt |-> now, error |-> task.err]]
            /\ lastCall' = RecordCall("", 1)
       ELSE /\ UNCHANGED feedInfos
            /\ lastCall' = RecordCall("update tx", 1)
    /\ UNCHANGED <<postsTable, handles, now>>

\* databaseCaching.Next, database.go:350-357
CachingNext(h) ==
    /\ h \in 1..Len(handles)
    /\ handles[h].kind = "caching"
    /\ handles[h].state = "open"
    /\ handles[h].last # "EOF"
    /\ LET ct == handles[h] IN
       IF ct.uncached = <<>>
       THEN handles' = [handles EXCEPT ![h].last = "EOF"]
       ELSE handles' = [handles EXCEPT ![h].last = "post",
                                       ![h].posts = Append(ct.posts, Head(ct.uncached)),
                                       ![h].uncached = Tail(ct.uncached)]
    /\ lastCall' = NextCall(h)
    /\ UNCHANGED <<feedInfos, postsTable, tasks, now>>

\* a Save whose inserts stay in the store when the commit fails
SaveNoRollback(ct, results) ==
    IF Len(ct.posts) = 0
    THEN [err |-> "", tries |-> 0, commits |-> <<>>, wtx |-> 0,
          table |-> postsTable, infos |-> feedInfos]
    ELSE IF ValidatePosts(ct.posts) # ""
    THEN [err |-> ValidatePosts(ct.posts), tries |-> 0, commits |-> <<>>, wtx |-> 1,
          table |-> postsTable, infos |-> feedInfos]
    ELSE LET c == CommitLoop(results, 0, "") IN
         [err |-> IF c.err # "ok" THEN "commit" ELSE "", tries |-> c.tries,
          commits |-> results, wtx |-> 1,
          table |-> InsertAll(postsTable, ct.uname, ct.posts),
          infos |-> IF c.err # "ok" THEN feedInfos
                    ELSE [feedInfos EXCEPT ![ct.uname] =
                              [cachedAt |-> ct.cachedAt, error |-> ""]]]

\* databaseCaching.Save, database.go:368-447: the store afterwards and the error
Save(ct, results) ==
    IF Len(ct.posts) = 0
    THEN [err |-> "", tries |-> 0, commits |-> <<>>, wtx |-> 0,
          table |-> postsTable, infos |-> feedInfos]
    ELSE IF ValidatePosts(ct.posts) # ""
    THEN [err |-> ValidatePosts(ct.posts), tries |-> 0, commits |-> <<>>, wtx |-> 1,
          table |-> postsTable, infos |-> feedInfos]
    ELSE LET c == CommitLoop(results, 0, "") IN
         IF c.err # "ok"
         THEN [err |-> "commit", tries |-> c.tries,
               commits |-> results, wtx |-> 1,
               table |-> postsTable, infos |-> feedInfos]
         ELSE [err |-> "", tries |-> c.tries,
               commits |-> results, wtx |-> 1,
               table |-> InsertAll(postsTable, ct.uname, ct.posts),
               infos |-> [feedInfos EXCEPT ![ct.uname] =
                              [cachedAt |-> ct.cachedAt, error |-> ""]]]

\* databaseCaching.Close, database.go:359-366
CachingClose(h, results) ==
    /\ h \in 1..Len(handles)
    /\ handles[h].kind = "caching"
    /\ handles[h].state = "open"
    /\ LET s == Save(handles[h], results) IN
       /\ postsTable' = s.table
       /\ feedInfos' = s.infos
       /\ handles' = [handles EXCEPT ![h].state = "closed",
                                     ![h].closeErr = s.err,
                                     ![h].closedAt = now,
                                     ![h].uncached = <<>>,
                                     ![h].uncachedCloses =
                                         IF s.err # ""
                                         THEN @ + 1     \* database.go:362
                                         ELSE @ + 1]    \* database.go:365
       /\ lastCall' = CloseCall(h, s.err, s.tries, s.commits, s.wtx)
    /\ UNCHANGED <<tasks, now>>

\* the post databaseCached.Next builds from a row, database.go:488-505
ScanRow(row, outOfDate) ==
    [source |-> row.source, id |-> row.id, author |-> row.author, date |-> row.date,
     tags |-> IF outOfDate
              THEN Append(UnmarshalTags(row.tags), "numblr:out-of-date")
              ELSE UnmarshalTags(row.tags)]

\* databaseCached.Next, database.go:479-506
CachedNext(h) ==
    /\ h \in 1..Len(handles)
    /\ handles[h].kind = "cached"
    /\ handles[h].state = "open"
    /\ handles[h].last # "EOF"
    /\ LET dc == handles[h] IN
       IF dc.rows = <<>>
       THEN handles' = [handles EXCEPT ![h].last = "EOF"]
       ELSE handles' = [handles EXCEPT
                ![h].last = "post",
                ![h].posts = Append(dc.posts, ScanRow(Head(dc.rows), dc.outOfDate)),
                ![h].rows = Tail(dc.rows)]
    /\ lastCall' = NextCall(h)
    /\ UNCHANGED <<feedInfos, postsTable, tasks, now>>

\* a Close that closes the rows and does not call dc.cancel
CachedCloseRowsOnly(h) ==
    /\ h \in 1..Len(handles)
    /\ handles[h].kind = "cached"
    /\ handles[h].state = "open"
    /\ handles' = [handles EXCEPT ![h].state = "closed", ![h].rows = <<>>,
                                  ![h].rowsOpen = FALSE]
    /\ lastCall' = CloseCall(h, "", 0, <<>>, 0)
    /\ UNCHANGED <<feedInfos, postsTable, tasks, now>>

\* databaseCached.Close, database.go:508-513
CachedClose(h) ==
    /\ h \in 1..Len(handles)
    /\ handles[h].kind = "cached"
    /\ handles[h].state = "open"
    \* dc.cancel is the cleanup of database.go:139-142: (*cancel)() and
    \* tx.Rollback(); then dc.rows.Close()
    /\ handles' = [handles EXCEPT ![h].state = "closed", ![h].rows = <<>>,
                                  ![h].pendingTimer = FALSE,
                                  ![h].txRollbacks = @ + 1,
                                  ![h].rowsOpen = FALSE]
    /\ lastCall' = CloseCall(h, "", 0, <<>>, 0)
    /\ UNCHANGED <<feedInfos, postsTable, tasks, now>>

\* time passes
Tick ==
    /\ now < MaxTime
    /\ now' = now + 1
    /\ lastCall' = NoCall
    /\ UNCHANGED <<feedInfos, postsTable, handles, tasks>>

InitStore ==
    /\ feedInfos = [n \in ReqNames |-> NoRow]
    /\ postsTable = {}
    /\ handles = <<>>
    /\ tasks = {}
    /\ now = 0
    /\ lastCall = NoCall

(***************************************************************************)
(* Search: src/feed/search.go and the queries of database.go:169-206       *)
(***************************************************************************)
MaxTitle == 2     \* longest title, in characters
MaxPosts == 2     \* most posts of the feed
MaxTerms == 2     \* most search terms

\* Strings are sequences of characters.
Chars == {"a", "b", " "}

Titles == UNION {[1..n -> Chars] : n \in 0..MaxTitle}

\* search terms and tags are lower-case words (ParseTerms, search.go:139-194)
Words == {<<"a">>, <<"b">>}

TagLists == {<<>>, << <<"a">> >>, << <<"a", "b">> >>}

\* t occurs in s at position k
OccursAt(t, s, k) ==
    /\ k + Len(t) - 1 <= Len(s)
    /\ \A j \in 1..Len(t) : s[k + j - 1] = t[j]

\* strings.Contains(s, t), and s LIKE '%t%' for lower-case strings
Contains(s, t) == \E k \in 1..Len(s) : OccursAt(t, s, k)

\* strings.ToLower: "A" and "B" are the upper-case letters of the model
LowerChar(c) == CASE c = "A" -> "a" [] c = "B" -> "b" [] OTHER -> c

Lower(s) == [k \in 1..Len(s) |-> LowerChar(s[k])]

\* the characters that are not word characters (\W of the regular expressions)
NonWordChars == {" ", ":", "(", "=", "\""}

\* the regular expression (?i)\b(t)\b finds the word t in s (search.go:197):
\* case is ignored and the match begins and ends at a word boundary
WordOccurs(t, s) ==
    \E k \in 1..Len(s) :
        /\ OccursAt(Lower(t), Lower(s), k)
        /\ k = 1 \/ s[k - 1] \in NonWordChars
        /\ k + Len(t) - 1 = Len(s) \/ s[k + Len(t)] \in NonWordChars

\* termsRE.MatchString(s): the alternation of all terms
TermsRE(terms, s) == \E i \in 1..Len(terms) : WordOccurs(terms[i], s)

\* regexp.Compile of the alternation succeeds (search.go:196-213): it fails
\* when a term is not a regular expression, "(" in the model
Compiles(terms) == \A i \in 1..Len(terms) : ~Contains(terms[i], <<"(">>)

\* contains(xs, contain), search.go:110-117
ContainsTag(xs, tag) == \E i \in 1..Len(xs) : Lower(xs[i]) = tag

\* the literal class="tumblr_blog"
TumblrBlog ==
    <<"c", "l", "a", "s", "s", "=", "\"", "t", "u", "m", "b", "l", "r", "_", "b", "l", "o", "g", "\"">>

\* isReblogRE, ^\s*[-\w]+: (feed.go:64): spaces, then word characters or "-",
\* then a colon
IsReblogTitle(t) ==
    \E i \in 0..Len(t), j \in 1..Len(t) :
        /\ i < j /\ j < Len(t)
        /\ \A k \in 1..i : t[k] = " "
        /\ \A k \in (i + 1)..j : t[k] \notin NonWordChars
        /\ t[j + 1] = ":"

\* Post.IsReblog, feed.go:68-70
IsReblog(p) == IsReblogTitle(p.title) \/ Contains(p.description, TumblrBlog)

\* the searches FromRequest builds (search.go:122-136): none, or terms and tags
NoSearch ==
    [isActive |-> FALSE, noReblogs |-> FALSE, terms |-> <<>>, excludeTerms |-> <<>>,
     tags |-> <<>>, excludeTags |-> <<>>]

Searches ==
    {NoSearch} \cup
    {[NoSearch EXCEPT !.isActive = TRUE, !.terms = ts, !.tags = tg] :
        ts \in UNION {[1..n -> Words] : n \in 0..MaxTerms},
        tg \in {<<>>, << <<"a">> >>}}

\* a stored post of the author: the description is empty, dates are distinct
SearchPost(id, title, tags) ==
    [source |-> "tumblr", id |-> id, author |-> "foo", title |-> title,
     description |-> <<>>, tags |-> tags, date |-> id]

SearchRowOf(p) == [p EXCEPT !.tags = MarshalTags(p.tags)]

SearchPostOf(row) == [row EXCEPT !.tags = UnmarshalTags(row.tags)]

\* tags LIKE '%t%' on the JSON text of the column
TagsLike(js, t) ==
    /\ js # <<"null">>
    /\ \E k \in 2..(Len(js) - 1) : Contains(js[k], t)

\* a Search.Matches that accepts a post having any one of the tags
MatchesAnyTag(search, p) ==
    IF ~search.isActive THEN TRUE
    ELSE IF search.noReblogs /\ IsReblog(p) THEN FALSE
    ELSE IF \E i \in 1..Len(p.tags), j \in 1..Len(search.excludeTags) :
                p.tags[i] = search.excludeTags[j]
    THEN FALSE
    ELSE IF Len(search.tags) > 0
            /\ \A i \in 1..Len(search.tags) : ~ContainsTag(p.tags, search.tags[i])
    THEN FALSE
    ELSE IF Len(search.terms) > 0
            /\ ~TermsRE(search.terms, p.title) /\ ~TermsRE(search.terms, p.description)
    THEN FALSE
    ELSE IF Len(search.excludeTerms) > 0
            /\ (TermsRE(search.excludeTerms, p.title)
                \/ TermsRE(search.excludeTerms, p.description))
    THEN FALSE
    ELSE TRUE

\* Search.Matches, search.go:58-108.  termsRE and excludedTermsRE are nil
\* when there are no terms or when the pattern did not compile; then every
\* term is looked for as a substring of the lower-cased title and description
Matches(search, p) ==
    IF ~search.isActive THEN TRUE
    ELSE IF search.noReblogs /\ IsReblog(p) THEN FALSE
    ELSE IF \E i \in 1..Len(p.tags), j \in 1..Len(search.excludeTags) :
                p.tags[i] = search.excludeTags[j]
    THEN FALSE
    ELSE IF \E i \in 1..Len(search.tags) : ~ContainsTag(p.tags, search.tags[i]) THEN FALSE
    ELSE IF IF Len(search.terms) > 0 /\ Compiles(search.terms)
            THEN ~TermsRE(search.terms, p.title) /\ ~TermsRE(search.terms, p.description)
            ELSE \E i \in 1..Len(search.terms) :
                    /\ ~Contains(Lower(p.title), search.terms[i])
                    /\ ~Contains(Lower(p.description), search.terms[i])
    THEN FALSE
    ELSE IF IF Len(search.excludeTerms) > 0 /\ Compiles(search.excludeTerms)
            THEN \/ TermsRE(search.excludeTerms, p.title)
                 \/ TermsRE(search.excludeTerms, p.description)
            ELSE \E i \in 1..Len(search.excludeTerms) :
                    \/ Contains(Lower(p.title), search.excludeTerms[i])
                    \/ Contains(Lower(p.description), search.excludeTerms[i])
    THEN FALSE
    ELSE TRUE

\* the WHERE clause OpenCached picks (database.go:180-195, BeforeID empty)
PushedDown(search, row) ==
    IF Len(search.terms) > 0
    THEN \/ Contains(row.title, search.terms[1])
         \/ Contains(row.description, search.terms[1])
         \/ TagsLike(row.tags, search.terms[1])
    ELSE IF Len(search.tags) > 0
    THEN TagsLike(row.tags, search.tags[1])
    ELSE TRUE

\* the rows the cached feed delivers: ... WHERE author = ? AND <clause>
\* ORDER BY date DESC LIMIT 20
QuerySearch(rows, search) ==
    Limit(OrderByDateDesc({r \in rows : r.author = "foo" /\ PushedDown(search, r)}),
          QueryLimit)

InitSearchIdle ==
    /\ sRows = {}
    /\ sSearch = NoSearch
    /\ sPc = "idle"
    /\ sPushed = {}
    /\ sMemory = {}

InitSearch ==
    /\ \E n \in 0..MaxPosts :
          \E ts \in [1..n -> Titles], tg \in [1..n -> TagLists] :
             sRows = {SearchRowOf(SearchPost(i, ts[i], tg[i])) : i \in 1..n}
    /\ sSearch \in Searches
    /\ sPc = "start"
    /\ sPushed = {}
    /\ sMemory = {}

\* the handler reads the cached feed opened with the search and keeps the
\* posts that search.Matches accepts (numblr.go:3915)
SearchReadPushedDown ==
    /\ sPc = "start"
    /\ sPushed' = {p \in {SearchPostOf(r) : r \in Range(QuerySearch(sRows, sSearch))} :
                      Matches(sSearch, p)}
    /\ sPc' = "pushed"
    /\ UNCHANGED <<sRows, sSearch, sMemory>>

\* every post of the feed, filtered in memory with search.Matches
SearchReadInMemory ==
    /\ sPc = "pushed"
    /\ sMemory' = {p \in {SearchPostOf(r) : r \in sRows} : Matches(sSearch, p)}
    /\ sPc' = "done"
    /\ UNCHANGED <<sRows, sSearch, sPushed>>

(***************************************************************************)
(* One call of Search.Matches (search.go:58-108) on a search as ParseTerms *)
(* builds it (search.go:139-214): terms, tags and exclusions are           *)
(* lower-cased, and a pattern is compiled when there are terms.            *)
(***************************************************************************)
MaxMatchTerms == 2    \* most terms of a search

\* the terms of a search: two words and one that is no regular expression
MatchWords == {<<"a">>, <<"b">>, <<"a", "(">>}

MatchTerms == UNION {[1..n -> MatchWords] : n \in 0..MaxMatchTerms}

MatchSearches ==
    {NoSearch} \cup
    {[isActive |-> TRUE, noReblogs |-> nr, terms |-> ts, excludeTerms |-> xs,
      tags |-> tg, excludeTags |-> xt] :
        nr \in BOOLEAN, ts \in MatchTerms,
        xs \in {<<>>, << <<"b">> >>, << <<"a", "(">> >>},
        tg \in {<<>>, << <<"a">> >>, << <<"a">>, <<"b">> >>},
        xt \in {<<>>, << <<"b">> >>}}

MatchTitles ==
    {<<>>, <<"a">>, <<"A", " ", "b">>, <<"a", "b">>, <<"a", ":">>, <<" ", "b", ":", "a">>,
     <<"a", "(">>, <<"b", " ", "A", "(">>}

MatchDescriptions == {<<>>, <<"a">>, <<"b", " ">> \o TumblrBlog}

MatchTags == {<<>>, << <<"A">> >>, << <<"a">>, <<"B">> >>, << <<"b">> >>}

MatchPosts ==
    {[title |-> t, description |-> d, tags |-> tg] :
        t \in MatchTitles, d \in MatchDescriptions, tg \in MatchTags}

InitMatchIdle ==
    /\ qSearch = NoSearch
    /\ qPost = [title |-> <<>>, description |-> <<>>, tags |-> <<>>]
    /\ qPc = "idle"
    /\ qResult = FALSE

InitMatch ==
    /\ qSearch \in MatchSearches
    /\ qPost \in MatchPosts
    /\ qPc = "start"
    /\ qResult = FALSE

\* s.Matches(p)
SearchMatches ==
    /\ qPc = "start"
    /\ qResult' = Matches(qSearch, qPost)
    /\ qPc' = "done"
    /\ UNCHANGED <<qSearch, qPost>>

(***************************************************************************)
(* The in-memory cache: NewCached, cachingTumblr and cachedFeed            *)
(* (numblr.go:1469-1544)                                                   *)
(***************************************************************************)
\* NewCached is called at most three times in a behaviour: lFeeds has these slots
LruFeedIds == {1, 2, 3}

\* the clock of the in-memory cache stops at the last of these
LruTimes == {0, 1, 2}

\* lru.New(100), numblr.go:191: one entry in the model
LruCapacity == 1

LruNames == {"foo", "bar"}

\* what the adapter delivers when it is opened
LruUpstreams == {<<1, 2>>}

NoLruCall == [op |-> "none", name |-> "", hit |-> FALSE, adapter |-> FALSE, h |-> 0]

\* an entry of the LRU is the pointer to the cachedFeed of a wrapper: the
\* model keeps the name and the index of the wrapper in lFeeds
LruIndex(c, name) ==
    IF \E i \in 1..Len(c) : c[i].name = name
    THEN CHOOSE i \in 1..Len(c) : c[i].name = name
    ELSE 0

LruWithout(c, name) == SelectSeq(c, LAMBDA e : e.name # name)

\* cache.Get: the entry found becomes the most recently used
LruGet(c, name) ==
    IF LruIndex(c, name) = 0 THEN c
    ELSE <<c[LruIndex(c, name)]>> \o LruWithout(c, name)

\* cache.Add: the entry is put in front, the least recently used entry is
\* dropped when the capacity is exceeded
LruAdd(c, name, h) ==
    LET added == <<[name |-> name, feed |-> h]>> \o LruWithout(c, name)
    IN  IF Len(added) > LruCapacity THEN SubSeq(added, 1, LruCapacity) ELSE added

\* isCached && time.Since(cached.cachedAt) < CacheTime, numblr.go:1471
LruFresh(name) ==
    /\ LruIndex(lCache, name) # 0
    /\ lNow - lFeeds[lCache[LruIndex(lCache, name)].feed].cachedAt < CacheTime

\* an append that puts the post in front of the buffer
ObserveInFront(buffer, post) == <<post>> \o buffer

\* ct.cached.posts = append(ct.cached.posts, post), numblr.go:1508
Observe(buffer, post) == Append(buffer, post)

InitLruIdle ==
    /\ lCache = <<>>
    /\ lFeeds = <<>>
    /\ lNow = 0
    /\ lLast = NoLruCall

\* NewCached finds a fresh entry and returns a copy of it (numblr.go:1470-1474)
NewCachedHit(name) ==
    /\ Len(lFeeds) + 1 \in LruFeedIds
    /\ LruFresh(name)
    /\ LET from == lCache[LruIndex(lCache, name)].feed
       IN  lFeeds' = Append(lFeeds,
               [kind |-> "cached", name |-> name, cachedAt |-> lFeeds[from].cachedAt,
                posts |-> lFeeds[from].posts, upstream |-> <<>>, emitted |-> <<>>,
                closed |-> 0, from |-> from])
    /\ lCache' = LruGet(lCache, name)
    /\ lLast' = [op |-> "open", name |-> name, hit |-> TRUE, adapter |-> FALSE,
                 h |-> Len(lFeeds) + 1]
    /\ UNCHANGED lNow

\* NewCached finds no fresh entry, opens the adapter and returns a wrapper
\* that records (numblr.go:1475-1487)
NewCachedMiss(name, upstream) ==
    /\ Len(lFeeds) + 1 \in LruFeedIds
    /\ ~LruFresh(name)
    /\ lFeeds' = Append(lFeeds,
           [kind |-> "caching", name |-> name, cachedAt |-> lNow,
            posts |-> <<>>, upstream |-> upstream, emitted |-> <<>>,
            closed |-> 0, from |-> 0])
    /\ lCache' = LruGet(lCache, name)
    /\ lLast' = [op |-> "open", name |-> name, hit |-> FALSE, adapter |-> TRUE,
                 h |-> Len(lFeeds) + 1]
    /\ UNCHANGED lNow

\* NewCached finds no fresh entry and the adapter fails (numblr.go:1475-1478)
NewCachedFail(name) ==
    /\ Len(lFeeds) + 1 \in LruFeedIds
    /\ ~LruFresh(name)
    /\ lCache' = LruGet(lCache, name)
    /\ lLast' = [op |-> "open", name |-> name, hit |-> FALSE, adapter |-> TRUE, h |-> 0]
    /\ UNCHANGED <<lFeeds, lNow>>

\* how many feeds have been closed
LruCloses == Cardinality({h \in 1..Len(lFeeds) : lFeeds[h].closed # 0})

\* cachingTumblr.Next, numblr.go:1503-1510
LruCachingNext(h) ==
    /\ lFeeds[h].kind = "caching" /\ lFeeds[h].closed = 0
    /\ IF lFeeds[h].upstream = <<>>
       THEN UNCHANGED lFeeds
       ELSE lFeeds' = [lFeeds EXCEPT
               ![h].posts = Observe(@, Head(lFeeds[h].upstream)),
               ![h].emitted = Append(@, Head(lFeeds[h].upstream)),
               ![h].upstream = Tail(@)]
    /\ lLast' = [NoLruCall EXCEPT !.op = "next", !.name = lFeeds[h].name, !.h = h]
    /\ UNCHANGED <<lCache, lNow>>

\* cachingTumblr.Close, numblr.go:1512-1515
LruCachingClose(h) ==
    /\ lFeeds[h].kind = "caching" /\ lFeeds[h].closed = 0
    /\ lCache' = LruAdd(lCache, lFeeds[h].name, h)
    /\ lFeeds' = [lFeeds EXCEPT ![h].closed = LruCloses + 1]
    /\ lLast' = [NoLruCall EXCEPT !.op = "close", !.name = lFeeds[h].name, !.h = h]
    /\ UNCHANGED lNow

\* cachedFeed.Next, numblr.go:1532-1540
LruCachedNext(h) ==
    /\ lFeeds[h].kind = "cached" /\ lFeeds[h].closed = 0
    /\ IF lFeeds[h].posts = <<>>
       THEN UNCHANGED lFeeds
       ELSE lFeeds' = [lFeeds EXCEPT
               ![h].emitted = Append(@, Head(lFeeds[h].posts)),
               ![h].posts = Tail(@)]
    /\ lLast' = [NoLruCall EXCEPT !.op = "next", !.name = lFeeds[h].name, !.h = h]
    /\ UNCHANGED <<lCache, lNow>>

\* cachedFeed.Close, numblr.go:1542-1544
LruCachedClose(h) ==
    /\ lFeeds[h].kind = "cached" /\ lFeeds[h].closed = 0
    /\ lFeeds' = [lFeeds EXCEPT ![h].closed = LruCloses + 1]
    /\ lLast' = [NoLruCall EXCEPT !.op = "close", !.name = lFeeds[h].name, !.h = h]
    /\ UNCHANGED <<lCache, lNow>>

\* time passes
LruTick ==
    /\ lNow + 1 \in LruTimes
    /\ lNow' = lNow + 1
    /\ lLast' = NoLruCall
    /\ UNCHANGED <<lCache, lFeeds>>

(***************************************************************************)
(* Paging through a cached feed: the BeforeID queries of OpenCached        *)
(* (database.go:173-179).  Ids are single characters, so the text          *)
(* comparison of the id column is the comparison of the numbers.           *)
(***************************************************************************)
MaxPageId == 3    \* ids and dates of cached posts are 1..MaxPageId

\* a row of table posts of author "foo"
PageRow(id, date, reblog) == [id |-> id, date |-> date, author |-> "foo", reblog |-> reblog]

\* the value of a scalar subquery without rows
Null == -1

\* (SELECT date FROM posts WHERE author = ? AND id < ? ORDER BY id DESC):
\* the date of the first row, NULL without rows (database.go:178)
CursorDate(rows, name, before) ==
    LET below == {r \in rows : r.author = name /\ r.id < before}
    IN IF below = {} THEN Null
       ELSE (CHOOSE r \in below : \A q \in below : q.id <= r.id).date

\* ORDER BY id DESC
RECURSIVE OrderByIdDesc(_)
OrderByIdDesc(rows) ==
    IF rows = {} THEN <<>>
    ELSE LET top == CHOOSE r \in rows : \A q \in rows : q.id <= r.id
         IN <<top>> \o OrderByIdDesc(rows \ {top})

\* the query of database.go:176 (NoReblogs) or database.go:178
QueryBefore(rows, name, before, noReblogs) ==
    IF noReblogs
    THEN Limit(OrderByIdDesc({r \in rows : r.author = name /\ r.id < before /\ ~r.reblog}),
               QueryLimit)
    ELSE LET d == CursorDate(rows, name, before)
         IN IF d = Null THEN <<>>
            ELSE Limit(OrderByDateDesc({r \in rows : /\ r.author = name
                                                      /\ r.date < d
                                                      /\ r.id < before}),
                       QueryLimit)

InitPageIdle ==
    /\ pRows = {}
    /\ pBefore = 0
    /\ pNoReblogs = FALSE
    /\ pPc = "idle"
    /\ pOut = <<>>

\* any table of posts with distinct ids (the primary key), any cursor
InitPage ==
    /\ \E ids \in SUBSET (1..MaxPageId) :
          \E ds \in [ids -> 1..MaxPageId], rb \in [ids -> BOOLEAN] :
             pRows = {PageRow(i, ds[i], rb[i]) : i \in ids}
    /\ pBefore \in 1..(MaxPageId + 1)
    /\ pNoReblogs \in BOOLEAN
    /\ pPc = "start"
    /\ pOut = <<>>

\* OpenCached serves "foo" from the store with search.BeforeID set and the
\* caller reads the feed to its end (databaseCached.Next, database.go:479-506)
PageReadCached ==
    /\ pPc = "start"
    /\ pOut' = QueryBefore(pRows, "foo", pBefore, pNoReblogs)
    /\ pPc' = "read"
    /\ UNCHANGED <<pRows, pBefore, pNoReblogs>>

\* the caller closes the feed (databaseCached.Close, database.go:508-513)
PageClose ==
    /\ pPc = "read"
    /\ pPc' = "closed"
    /\ UNCHANGED <<pRows, pBefore, pNoReblogs, pOut>>

(***************************************************************************)
(* The consumers of feeds: one request to HandleTumblr                     *)
(* (numblr.go:3745-3929) and the background refresher (numblr.go:3345-3404)*)
(***************************************************************************)
MaxMerged == 2    \* most results of mergedFeeds.Next before it stays at EOF
MaxLimit == 2     \* largest limit parameter
MaxTicks == 2     \* refresher ticks that can overlap

\* make(chan bool, 100): the capacity, scaled to the ticks of the model
MaxConcurrentFeeds == 1

\* how many stale feeds ListFeedsOlderThan can return
StaleCounts == {0, 1, 2}

\* settings.SelectedFeeds, by index
FeedSel == {1, 2}

\* ids of posts, single characters compared as text
HIds == {1, 2}

\* what mergedFeeds.Next returns: a post, with the result of search.Matches,
\* or "no more posts: EOF" (feed.go:149-151); the merged feed returns posts
\* after an EOF when a child reported an error (feed.go:127)
EofItem == [kind |-> "eof", id |-> 0, matches |-> FALSE]

HItems == {EofItem} \cup {[kind |-> "post", id |-> i, matches |-> m] : i \in HIds, m \in BOOLEAN}

\* the result of the next call of mergedFeeds.Next
MergedNext == IF hPos < Len(hMerged) THEN hMerged[hPos + 1] ELSE EofItem

InitHandlerIdle ==
    /\ hMerged = <<>>
    /\ hBefore = 0
    /\ hLimit = 0
    /\ hPc = "idle"
    /\ hPos = 0
    /\ hPost = 0
    /\ hErr = FALSE
    /\ hPage = <<>>
    /\ hOpened = {}
    /\ hCloses = [i \in FeedSel |-> 0]

\* a request: the feeds' contents, before_id and limit (-1: a negative limit)
InitHandler ==
    /\ hMerged \in UNION {[1..n -> HItems] : n \in 0..MaxMerged}
    /\ hBefore \in {0} \cup HIds
    /\ hLimit \in (-1)..MaxLimit
    /\ hPc = "start"
    /\ hPos = 0
    /\ hPost = 0
    /\ hErr = FALSE
    /\ hPage = <<>>
    /\ hOpened = {}
    /\ hCloses = [i \in FeedSel |-> 0]

\* numblr.go:3752-3849: the selected feeds are opened, the successful ones
\* are merged and the Close of the merged feed is deferred
HandlerOpen(opened) ==
    /\ hPc = "start"
    /\ opened = {} => hMerged = <<>>
    /\ hOpened' = opened
    /\ hPc' = IF hBefore # 0 THEN "skip" ELSE "collect"
    /\ UNCHANGED <<hMerged, hBefore, hLimit, hPos, hPost, hErr, hPage, hCloses>>

\* nextPost (numblr.go:3869-3899) with no filter of the settings set to skip
HandlerNextPost ==
    /\ hPost' = IF MergedNext.kind = "post" THEN hPos + 1 ELSE 0
    /\ hErr' = (MergedNext.kind = "eof")
    /\ hPos' = IF hPos < Len(hMerged) THEN hPos + 1 ELSE hPos

\* numblr.go:3901-3902: the first nextPost of the before_id loop
HandlerSkipFirst ==
    /\ hPc = "skip"
    /\ HandlerNextPost
    /\ hPc' = "skiploop"
    /\ UNCHANGED <<hMerged, hBefore, hLimit, hPage, hOpened, hCloses>>

\* numblr.go:3903-3908: one round of the before_id loop
HandlerSkipLoop ==
    /\ hPc = "skiploop"
    /\ IF hErr \/ hMerged[hPost].id <= hBefore
       THEN /\ hPc' = "collect"
            /\ UNCHANGED <<hPos, hPost, hErr>>
       ELSE /\ HandlerNextPost
            /\ hPc' = "skiploop"
    /\ UNCHANGED <<hMerged, hBefore, hLimit, hPage, hOpened, hCloses>>

\* numblr.go:3911-3913: make([]*feed.Post, 0, limit) panics when limit is
\* negative, which ends the handler; otherwise the first nextPost
HandlerCollectFirst ==
    /\ hPc = "collect"
    /\ IF hLimit < 0
       THEN /\ hPc' = "panic"
            /\ UNCHANGED <<hPos, hPost, hErr>>
       ELSE /\ HandlerNextPost
            /\ hPc' = "collectloop"
    /\ UNCHANGED <<hMerged, hBefore, hLimit, hPage, hOpened, hCloses>>

\* numblr.go:3914-3929: one round of the collecting loop
HandlerCollectLoop ==
    /\ hPc = "collectloop"
    /\ IF hErr
       THEN /\ hPc' = "render"
            /\ UNCHANGED <<hPos, hPost, hErr, hPage>>
       ELSE IF ~hMerged[hPost].matches
       THEN /\ HandlerNextPost
            /\ hPc' = "collectloop"
            /\ UNCHANGED hPage
       ELSE IF Len(hPage) >= hLimit
       THEN /\ hPc' = "render"
            /\ UNCHANGED <<hPos, hPost, hErr, hPage>>
       ELSE /\ hPage' = Append(hPage, hPost)
            /\ HandlerNextPost
            /\ hPc' = "collectloop"
    /\ UNCHANGED <<hMerged, hBefore, hLimit, hOpened, hCloses>>

\* a merger.Close that closes its first child only
MergerCloseFirst(closes, opened) ==
    [i \in FeedSel |-> IF i \in opened /\ \A j \in opened : i <= j
                       THEN closes[i] + 1 ELSE closes[i]]

\* merger.Close (feed.go:158-164): every child is closed, whatever the
\* children return
MergerCloseAll(closes, opened) ==
    [i \in FeedSel |-> IF i \in opened THEN closes[i] + 1 ELSE closes[i]]

\* numblr.go:3844-3849: the deferred Close runs when the handler returns
\* after rendering the page or panics
HandlerReturn ==
    /\ hPc \in {"render", "panic"}
    /\ hCloses' = MergerCloseAll(hCloses, hOpened)
    /\ hPc' = IF hPc = "render" THEN "done" ELSE "aborted"
    /\ UNCHANGED <<hMerged, hBefore, hLimit, hPos, hPost, hErr, hPage, hOpened>>

\* ---- the refresher ----
\* a refreshFn goroutine: pc, the stale feeds still to refresh, whether
\* anything.Open of the current feed succeeded, and how often the feed it
\* returned has been closed
Tick0 == [pc |-> "idle", left |-> 0, opened |-> FALSE, closes |-> 0]

InitRefresherIdle ==
    /\ rTicks = [t \in 1..MaxTicks |-> Tick0]
    /\ rSem = 0

\* a behaviour follows the refresher when no request is being handled
RefresherRuns == hPc = "idle"

\* numblr.go:3399-3403 and 3349-3353: the loop starts refreshFn, every minute
\* and whether or not earlier ones have returned; it lists the stale feeds
RefreshTick(t, n) ==
    /\ RefresherRuns
    /\ rTicks[t].pc = "idle"
    /\ \A u \in 1..(t - 1) : rTicks[u].pc # "idle"
    /\ rTicks' = [rTicks EXCEPT ![t] = [pc |-> IF n = 0 THEN "done" ELSE "next",
                                         left |-> n, opened |-> FALSE, closes |-> 0]]
    /\ UNCHANGED rSem

\* numblr.go:3356-3361: the next stale feed: the context with the 10 s
\* deadline is made and anything.Open is called
RefreshStartOpen(t) ==
    /\ rTicks[t].pc = "next"
    /\ rTicks' = [rTicks EXCEPT ![t].pc = "opening", ![t].opened = FALSE, ![t].closes = 0]
    /\ UNCHANGED rSem

\* what the function of numblr.go:3357-3387 leaves behind when it returns
NextFeed(tick) ==
    [tick EXCEPT !.pc = IF tick.left = 1 THEN "done" ELSE "next", !.left = tick.left - 1]

\* numblr.go:3361-3364: anything.Open returns
RefreshOpened(t, ok) ==
    /\ rTicks[t].pc = "opening"
    /\ rTicks' = [rTicks EXCEPT ![t] = IF ok THEN [@ EXCEPT !.pc = "acquire", !.opened = TRUE]
                                         ELSE NextFeed(@)]
    /\ UNCHANGED rSem

\* numblr.go:3365: maxConcurrentFeeds <- true blocks while the channel is full
RefreshAcquire(t) ==
    /\ rTicks[t].pc = "acquire"
    /\ rSem < MaxConcurrentFeeds
    /\ rSem' = rSem + 1
    /\ rTicks' = [rTicks EXCEPT ![t].pc = "iterate"]

\* numblr.go:3376-3386: feed.Next until it returns an error, EOF or not
RefreshIterate(t) ==
    /\ rTicks[t].pc = "iterate"
    /\ rTicks' = [rTicks EXCEPT ![t].pc = "closing"]
    /\ UNCHANGED rSem

\* numblr.go:3366-3374: the deferred function closes the feed and takes
\* the token out of the channel
RefreshClose(t) ==
    /\ rTicks[t].pc = "closing"
    /\ rTicks' = [rTicks EXCEPT ![t] = NextFeed([@ EXCEPT !.closes = @ + 1])]
    /\ rSem' = rSem - 1

(***************************************************************************)
(* Concurrent tasks on the shared store: each opens a feed with ForceFresh,*)
(* reads it to its end and closes it, as fetchFeeds of TestConcurrentWrites*)
(* does (part_014:50-73), while WAL checkpoints run.  The store is opened  *)
(* with _journal_mode=WAL and _busy_timeout=100 (database.go:30): reads    *)
(* never wait for a writer, and a statement that needs the write lock      *)
(* while another transaction holds it fails with "database is locked"      *)
(* once the timeout has passed.                                            *)
(***************************************************************************)
MaxTasks == 2     \* concurrent tasks

\* the feeds' names
TaskNames == {"staff", "love"}

\* what tx.Commit() can return
CommitOutcomes == {"ok", "busy", "other"}

Task0 == [pc |-> "idle", name |-> "", valid |-> FALSE, openErr |-> "",
          last |-> "none", tries |-> 0, err |-> ""]

InitTasksIdle ==
    /\ cTasks = [k \in 1..MaxTasks |-> Task0]
    /\ cLock = 0
    /\ cInfos = {}
    /\ cCkpts = 0

\* every task is about to open a feed, of the same or of distinct names,
\* whose adapter returns one post that Save accepts or rejects
InitTasks ==
    /\ cTasks \in [1..MaxTasks -> {[Task0 EXCEPT !.pc = "start", !.name = n, !.valid = v] :
                                      n \in TaskNames, v \in BOOLEAN}]
    /\ cLock = 0
    /\ cInfos = {}
    /\ cCkpts = 0

\* OpenCached with ForceFresh (database.go:129-167, 220-224, 305-310): the
\* row is looked up in a read-only transaction, the adapter opens, the
\* transaction is rolled back and the caching feed is returned
TaskOpen(k) ==
    /\ cTasks[k].pc = "start"
    /\ cTasks' = [cTasks EXCEPT ![k].pc = "iter", ![k].openErr = ""]
    /\ UNCHANGED <<cLock, cInfos, cCkpts>>

\* databaseCaching.Next over the adapter's single post (database.go:350-357,
\* feed.go:192-201): the post, then EOF
TaskNext(k) ==
    /\ cTasks[k].pc = "iter"
    /\ cTasks' = [cTasks EXCEPT ![k].last = IF cTasks[k].last = "none" THEN "post" ELSE "EOF",
                                 ![k].pc = IF cTasks[k].last = "none" THEN "iter" ELSE "close"]
    /\ UNCHANGED <<cLock, cInfos, cCkpts>>

\* databaseCaching.Close calls Save: BeginTx and the validation of the posts
\* (database.go:359-393)
TaskSaveBegin(k) ==
    /\ cTasks[k].pc = "close"
    /\ cTasks' = [cTasks EXCEPT ![k] = IF cTasks[k].valid
                                        THEN [@ EXCEPT !.pc = "exec"]
                                        ELSE [@ EXCEPT !.pc = "closed", !.err = "empty post source"]]
    /\ UNCHANGED <<cLock, cInfos, cCkpts>>

\* the INSERT OR REPLACE statements (database.go:407-415) take the write
\* lock; while another transaction holds it they fail when the busy timeout
\* has passed and Save returns, its deferred Rollback ending the transaction
TaskSaveExec(k) ==
    /\ cTasks[k].pc = "exec"
    /\ IF cLock = 0
       THEN /\ cLock' = k
            /\ cTasks' = [cTasks EXCEPT ![k].pc = "commit"]
       ELSE /\ cLock' = cLock
            /\ cTasks' = [cTasks EXCEPT ![k].pc = "closed", ![k].err = "update posts"]
    /\ UNCHANGED <<cInfos, cCkpts>>

\* a commit loop that retries for as long as the store is busy
TaskCommitUnbounded(k, result) ==
    /\ cTasks[k].pc = "commit"
    /\ IF result = "busy"
       THEN /\ cTasks' = [cTasks EXCEPT ![k].tries = @ + 1]
            /\ UNCHANGED <<cLock, cInfos>>
       ELSE /\ cTasks' = [cTasks EXCEPT ![k].tries = @ + 1, ![k].pc = "closed",
                                        ![k].err = IF result = "ok" THEN "" ELSE "commit"]
            /\ cInfos' = IF result = "ok" THEN cInfos \cup {cTasks[k].name} ELSE cInfos
            /\ cLock' = 0
    /\ UNCHANGED cCkpts

\* one round of the commit loop (database.go:417-435): a busy commit is
\* retried after 100 ms, up to three attempts in all; then Save returns and
\* the transaction has ended, by the commit or by the deferred Rollback
TaskCommit(k, result) ==
    /\ cTasks[k].pc = "commit"
    /\ IF result = "busy" /\ cTasks[k].tries + 1 < 3
       THEN /\ cTasks' = [cTasks EXCEPT ![k].tries = @ + 1]
            /\ UNCHANGED <<cLock, cInfos>>
       ELSE /\ cTasks' = [cTasks EXCEPT ![k].tries = @ + 1, ![k].pc = "closed",
                                        ![k].err = IF result = "ok" THEN "" ELSE "commit"]
            /\ cInfos' = IF result = "ok" THEN cInfos \cup {cTasks[k].name} ELSE cInfos
            /\ cLock' = 0
    /\ UNCHANGED cCkpts

\* PRAGMA wal_checkpoint(PASSIVE) (part_014:83-91, database.go:56-66): it
\* copies what it can without waiting and takes no lock a task needs
TaskCheckpoint ==
    /\ cTasks[1].pc # "idle"
    /\ cCkpts = 0
    /\ cCkpts' = 1
    /\ UNCHANGED <<cTasks, cLock, cInfos>>

(***************************************************************************)
(* The dispatcher: anything.Open (anything.go:19-38).  Names are sequences *)
(* of characters, put together from the pieces the rules look for.         *)
(***************************************************************************)
MaxNameParts == 2     \* most pieces of a name

\* the strings of the case clauses
AtTwitter == <<"@", "t", "w", "i", "t", "t", "e", "r">>
AtT == <<"@", "t">>
AtInstagram == <<"@", "i", "n", "s", "t", "a", "g", "r", "a", "m">>
AtIg == <<"@", "i", "g">>
AtYoutube == <<"@", "y", "o", "u", "t", "u", "b", "e">>
AtYt == <<"@", "y", "t">>
AtTumblr == <<"@", "t", "u", "m", "b", "l", "r">>
TiktokHost == <<"w", "w", "w", ".", "t", "i", "k", "t", "o", "k", ".", "c", "o", "m">>
AtTiktok == <<"@", "t", "i", "k", "t", "o", "k">>
Ao3Host == <<"a", "r", "c", "h", "i", "v", "e", "o", "f", "o", "u", "r", "o", "w", "n", ".", "o", "r", "g">>
AtAo3 == <<"@", "a", "o", "3">>

\* the pieces of names: a letter, "@", ".", and the strings of the rules
NameParts ==
    {<<"x">>, <<"@">>, <<".">>, AtTwitter, AtT, AtInstagram, AtIg, AtYoutube, AtYt,
     AtTumblr, TiktokHost, AtTiktok, Ao3Host, AtAo3}

RECURSIVE Concat(_)
Concat(parts) == IF parts = <<>> THEN <<>> ELSE Head(parts) \o Concat(Tail(parts))

DispatchNames == {Concat(ps) : ps \in UNION {[1..n -> NameParts] : n \in 0..MaxNameParts}}

\* strings.HasSuffix(s, t)
HasSuffix(s, t) ==
    /\ Len(t) <= Len(s)
    /\ \A j \in 1..Len(t) : s[Len(s) - Len(t) + j] = t[j]

\* a dispatcher that tries the rule for "@" and "." before the rule for @tumblr
AdapterOfGenericFirst(name) ==
    IF HasSuffix(name, AtTwitter) \/ HasSuffix(name, AtT) THEN "nitter"
    ELSE IF HasSuffix(name, AtInstagram) \/ HasSuffix(name, AtIg) THEN "bibliogram"
    ELSE IF HasSuffix(name, AtYoutube) \/ HasSuffix(name, AtYt) THEN "youtube"
    ELSE IF Contains(name, <<"@">>) \/ Contains(name, <<".">>) THEN "rss"
    ELSE "tumblr"

\* the switch of anything.go:20-37: the adapter of the first case that holds
AdapterOf(name) ==
    IF HasSuffix(name, AtTwitter) \/ HasSuffix(name, AtT) THEN "nitter"
    ELSE IF HasSuffix(name, AtInstagram) \/ HasSuffix(name, AtIg) THEN "bibliogram"
    ELSE IF HasSuffix(name, AtYoutube) \/ HasSuffix(name, AtYt) THEN "youtube"
    ELSE IF HasSuffix(name, AtTumblr) THEN "tumblr"
    ELSE IF Contains(name, TiktokHost) \/ HasSuffix(name, AtTiktok) THEN "tiktok"
    ELSE IF Contains(name, Ao3Host) \/ HasSuffix(name, AtAo3) THEN "ao3"
    ELSE IF Contains(name, <<"@">>) \/ Contains(name, <<".">>) THEN "rss"
    ELSE "tumblr"

InitDispatchIdle ==
    /\ aName = <<>>
    /\ aPc = "idle"
    /\ aCached = <<>>
    /\ aDirect = 0

InitDispatch ==
    /\ aName \in DispatchNames
    /\ aPc = "start"
    /\ aCached = <<>>
    /\ aDirect = 0

\* anything.Open: every case returns cacheFn(ctx, name, <adapter>.Open, search);
\* the adapter is handed over as a value and not called
AnythingOpen ==
    /\ aPc = "start"
    /\ aCached' = Append(aCached, AdapterOf(aName))
    /\ aPc' = "done"
    /\ UNCHANGED <<aName, aDirect>>

(***************************************************************************)
(* ParseTerms with quoted phrases (part_013:141-248).  The raw search is   *)
(* put together from pieces; one step of the model is one pass through the *)
(* loop of lines 150-228.                                                  *)
(***************************************************************************)
MaxRawParts == 4     \* most pieces of a raw search

SkipWord == <<"s", "k", "i", "p">>

RawParts ==
    {<<"A">>, <<"b">>, <<" ">>, <<"-">>, <<"#">>, <<"\"">>, <<"'">>, <<"+">>, SkipWord}

RawSearches == {Concat(ps) : ps \in UNION {[1..n -> RawParts] : n \in 0..MaxRawParts}}

\* quoteChars, part_013:138
QuoteChars == {"\"", "'"}

EmptySearch ==
    [terms |-> <<>>, tags |-> <<>>, excludeTerms |-> <<>>, excludeTags |-> <<>>,
     noReblogs |-> FALSE, skip |-> FALSE]

\* strings.IndexAny: the index, counted from 0, of the first character of s
\* that is one of chars, or -1
IndexAny(s, chars) ==
    IF \E i \in 1..Len(s) : s[i] \in chars
    THEN (CHOOSE i \in 1..Len(s) :
             s[i] \in chars /\ \A k \in 1..(i - 1) : s[k] \notin chars) - 1
    ELSE -1

\* strings.IndexByte
IndexByte(s, c) == IndexAny(s, {c})

\* s[i:j] is in range
SliceOk(s, i, j) == 0 <= i /\ i <= j /\ j <= Len(s)

\* s[i:j]
Slice(s, i, j) == SubSeq(s, i + 1, j)

\* url.QueryUnescape: "+" stands for a space (there is no "%" in the model)
QueryUnescape(s) == [k \in 1..Len(s) |-> IF s[k] = "+" THEN " " ELSE s[k]]

\* the token up to the next space, part_013:169-175, 178-179 and 183-189
UpToSpace(raw) ==
    LET spaceIdx == IndexAny(raw, {" "})
    IN  IF spaceIdx = -1
        THEN [ok |-> TRUE, term |-> raw, rest |-> <<>>]
        ELSE [ok |-> TRUE, term |-> Slice(raw, 0, spaceIdx),
              rest |-> Slice(raw, spaceIdx + 1, Len(raw))]

\* lines 165-196: searchTerm and the new rawSearch, or a slice out of range
NextToken(raw) ==
    LET spaceIdx == IndexAny(raw, {" "})
        quoteIdx == IndexAny(raw, QuoteChars)
    IN  IF quoteIdx = -1 THEN UpToSpace(raw)
        ELSE IF spaceIdx # -1 /\ spaceIdx < quoteIdx THEN UpToSpace(raw)
        ELSE LET nextQuoteIdx ==
                     IndexByte(Slice(raw, quoteIdx + 1, Len(raw)), raw[quoteIdx + 1])
             IN  IF nextQuoteIdx = -1 THEN UpToSpace(raw)
                 ELSE IF /\ SliceOk(raw, quoteIdx + 1, nextQuoteIdx + 1)
                         /\ SliceOk(raw, nextQuoteIdx + 2, Len(raw))
                 THEN [ok |-> TRUE,
                       term |-> Slice(raw, quoteIdx + 1, nextQuoteIdx + 1),
                       rest |-> Slice(raw, nextQuoteIdx + 2, Len(raw))]
                 ELSE [ok |-> FALSE, term |-> <<>>, rest |-> raw]

\* lines 198-227: what the token does to the search
PutToken(search, exclude, tag, searchTerm) ==
    IF searchTerm = <<>> THEN search
    ELSE IF searchTerm = SkipWord THEN [search EXCEPT !.skip = TRUE]
    ELSE LET term == Lower(QueryUnescape(searchTerm))
         IN  IF exclude /\ tag THEN [search EXCEPT !.excludeTags = Append(@, term)]
             ELSE IF tag THEN [search EXCEPT !.tags = Append(@, term)]
             ELSE IF exclude THEN [search EXCEPT !.excludeTerms = Append(@, term)]
             ELSE [search EXCEPT !.terms = Append(@, term)]

InitParseIdle ==
    /\ tInput = <<>>
    /\ tRaw = <<>>
    /\ tSearch = EmptySearch
    /\ tPc = "idle"

InitParse ==
    /\ tInput \in RawSearches
    /\ tRaw = tInput
    /\ tSearch = EmptySearch
    /\ tPc = "loop"

\* one pass through the loop, part_013:150-228
ParseStep ==
    /\ tPc = "loop" /\ tRaw # <<>>
    /\ LET exclude == tRaw[1] = "-"
           r1 == IF exclude THEN Tail(tRaw) ELSE tRaw
           tag == r1 # <<>> /\ r1[1] = "#"
           r2 == IF tag THEN Tail(r1) ELSE r1
           tok == NextToken(r2)
       IN  IF tok.ok
           THEN /\ tRaw' = tok.rest
                /\ tSearch' = PutToken(tSearch, exclude, tag, tok.term)
                /\ tPc' = "loop"
           ELSE /\ tPc' = "panic"
                /\ UNCHANGED <<tRaw, tSearch>>
    /\ UNCHANGED tInput

\* the loop ends and ParseTerms returns the search, part_013:230-247
ParseReturn ==
    /\ tPc = "loop" /\ tRaw = <<>>
    /\ tPc' = "done"
    /\ UNCHANGED <<tInput, tRaw, tSearch>>

(***************************************************************************)
(* Grouping the posts of a page by author: nextPostsGroup                  *)
(* (numblr.go:4359-4376) as HandleTumblr calls it (numblr.go:3931-3941).   *)
(* A post is its position on the page and its author.                      *)
(***************************************************************************)
MaxGroupPosts == 4    \* most posts of a page
MaxGroupSize == 3     \* groupPostsNumber is 1..MaxGroupSize

GroupAuthors == {"a", "b"}

GroupPages ==
    UNION {{[k \in 1..n |-> [id |-> k, author |-> au[k]]] : au \in [1..n -> GroupAuthors]} :
              n \in 0..MaxGroupPosts}

\* the loop of numblr.go:4364-4369: i counts from 0 and stops at the last
\* post or at the first post whose successor has another author
RECURSIVE RunLoop(_, _)
RunLoop(posts, i) ==
    IF i + 1 < Len(posts) /\ posts[i + 1].author = posts[i + 2].author
    THEN RunLoop(posts, i + 1)
    ELSE i

\* a nextPostsGroup that returns the leading run whatever its length
NextPostsGroupRun(posts, groupPostsNumber) ==
    IF Len(posts) = 0 \/ Len(posts) = 1
    THEN [group |-> posts, rest |-> <<>>]
    ELSE LET i == RunLoop(posts, 0)
         IN  [group |-> SubSeq(posts, 1, i + 1), rest |-> SubSeq(posts, i + 2, Len(posts))]

\* nextPostsGroup, numblr.go:4359-4376
NextPostsGroup(posts, groupPostsNumber) ==
    IF Len(posts) = 0 \/ Len(posts) = 1
    THEN [group |-> posts, rest |-> <<>>]
    ELSE LET i == RunLoop(posts, 0)
         IN  IF i + 1 >= groupPostsNumber
             THEN [group |-> SubSeq(posts, 1, i + 1),
                   rest |-> SubSeq(posts, i + 2, Len(posts))]
             ELSE [group |-> <<posts[1]>>, rest |-> Tail(posts)]

InitGroupIdle ==
    /\ gPosts = <<>>
    /\ gSize = 1
    /\ gIn = <<>>
    /\ gGroup = <<>>
    /\ gRest = <<>>
    /\ gGroups = <<>>
    /\ gPc = "idle"

InitGroup ==
    /\ gPosts \in GroupPages
    /\ gSize \in 1..MaxGroupSize
    /\ gIn = <<>>
    /\ gGroup = <<>>
    /\ gRest = <<>>
    /\ gGroups = <<>>
    /\ gPc = "start"

\* group, rest := nextPostsGroup(posts, GroupPostsNumber), numblr.go:3933
GroupFirst ==
    /\ gPc = "start"
    /\ gIn' = gPosts
    /\ gGroup' = NextPostsGroup(gPosts, gSize).group
    /\ gRest' = NextPostsGroup(gPosts, gSize).rest
    /\ gPc' = "loop"
    /\ UNCHANGED <<gPosts, gSize, gGroups>>

\* one pass of the loop of numblr.go:3934-3938
GroupLoop ==
    /\ gPc = "loop" /\ Len(gRest) # 0
    /\ gGroups' = Append(gGroups, gGroup)
    /\ gIn' = gRest
    /\ gGroup' = NextPostsGroup(gRest, gSize).group
    /\ gRest' = NextPostsGroup(gRest, gSize).rest
    /\ UNCHANGED <<gPosts, gSize, gPc>>

\* the loop ends and the last group is kept, numblr.go:3939-3941
GroupEnd ==
    /\ gPc = "loop" /\ Len(gRest) = 0
    /\ gGroups' = IF Len(gGroup) > 0 THEN Append(gGroups, gGroup) ELSE gGroups
    /\ gPc' = "done"
    /\ UNCHANGED <<gPosts, gSize, gIn, gGroup, gRest>>

(***************************************************************************)
(* Following the next-page link on one feed: HandleTumblr consumes the     *)
(* feed (numblr.go:3899-3929), links to before = lastPost.ID               *)
(* (numblr.go:4181-4190), and the next request consumes the feed again.    *)
(* The feed is "foo", its ids decrease with the date (id = date), and the  *)
(* store holds all its posts.  No search terms are given, so every post    *)
(* matches.                                                                *)
(***************************************************************************)
MaxFollowId == 5     \* the ids (and dates) of the posts of the feed are 1..MaxFollowId

\* the feed with the posts ids, newest first
RECURSIVE FollowFeed(_)
FollowFeed(ids) ==
    IF ids = {} THEN <<>>
    ELSE LET newest == CHOOSE i \in ids : \A j \in ids : j <= i
         IN  <<newest>> \o FollowFeed(ids \ {newest})

\* the rows of the store for the feed
FollowRows(f) == {PageRow(f[k], f[k], FALSE) : k \in 1..Len(f)}

\* the ids of rows
IdsOf(rows) == [k \in 1..Len(rows) |-> rows[k].id]

\* what the opened feed delivers: the adapter's feed when fetched, the rows
\* of the query of OpenCached when served from the store (database.go:173-204)
Served(f, mode, before) ==
    IF mode = "live" THEN f
    ELSE IF before # 0 THEN IdsOf(QueryBefore(FollowRows(f), "foo", before, FALSE))
    ELSE IdsOf(Limit(OrderByDateDesc(FollowRows(f)), QueryLimit))

\* nextPost, numblr.go:3869-3898: lastPost = post, then post, err = Next()
Pull(c) ==
    IF c.rest = <<>>
    THEN [post |-> 0, last |-> c.post, err |-> TRUE, rest |-> <<>>]
    ELSE [post |-> Head(c.rest), last |-> c.post, err |-> FALSE, rest |-> Tail(c.rest)]

\* the loop of numblr.go:3901-3906
RECURSIVE SkipToBefore(_, _)
SkipToBefore(c, before) ==
    IF c.err THEN c
    ELSE IF c.post <= before THEN c
    ELSE SkipToBefore(Pull(c), before)

\* the loop of numblr.go:3912-3929, every post matching
RECURSIVE Collect(_, _, _)
Collect(c, posts, limit) ==
    IF c.err THEN [posts |-> posts, last |-> c.last]
    ELSE IF Len(posts) >= limit THEN [posts |-> posts, last |-> c.last]
    ELSE Collect(Pull(c), Append(posts, c.post), limit)

\* numblr.go:3899-3929: the posts of the page and lastPost
Consume(served, before, limit) ==
    LET c0 == [post |-> 0, last |-> 0, err |-> FALSE, rest |-> served]
        c1 == IF before # 0 THEN SkipToBefore(Pull(c0), before) ELSE c0
    IN  Collect(Pull(c1), <<>>, limit)

InitFollowIdle ==
    /\ nFeed = <<>>
    /\ nLimit = 1
    /\ nModes = <<>>
    /\ nPage1 = <<>>
    /\ nLast = 0
    /\ nPage2 = <<>>
    /\ nPc = "idle"

InitFollow ==
    /\ \E ids \in SUBSET (1..MaxFollowId) : nFeed = FollowFeed(ids)
    /\ nLimit \in 1..MaxLimit
    /\ nModes = <<>>
    /\ nPage1 = <<>>
    /\ nLast = 0
    /\ nPage2 = <<>>
    /\ nPc = "start"

\* the request without before
FollowFirstPage(mode) ==
    /\ nPc = "start"
    /\ LET r == Consume(Served(nFeed, mode, 0), 0, nLimit)
       IN  /\ nPage1' = r.posts
           /\ nLast' = r.last
    /\ nModes' = <<mode>>
    /\ nPc' = "page1"
    /\ UNCHANGED <<nFeed, nLimit, nPage2>>

\* the request the link of the first page leads to (numblr.go:4181-4190)
FollowNextPage(mode) ==
    /\ nPc = "page1"
    /\ nLast # 0
    /\ nPage2' = Consume(Served(nFeed, mode, nLast), nLast, nLimit).posts
    /\ nModes' = Append(nModes, mode)
    /\ nPc' = "page2"
    /\ UNCHANGED <<nFeed, nLimit, nPage1, nLast>>

(***************************************************************************)
(* The refresher on the durable cache (numblr.go:3344-3404): refreshFn     *)
(* lists the stale names and opens each with ForceFresh under a 10 s       *)
(* deadline, reads it to its end and closes it, while visitors' requests   *)
(* open feeds without ForceFresh.  The upstream of foo either fails every  *)
(* open or delivers one feed; once it answers it keeps answering.  Commits *)
(* succeed and the error-recording goroutine writes its row.               *)
(***************************************************************************)
\* the feeds the upstream delivers: those Save accepts
HealthyFeeds == {f \in UpstreamFeeds("foo") : ValidatePosts(f) = ""}

\* SELECT name FROM feed_infos WHERE ? > cached_at (database.go:101)
ListFeedsOlderThan(infos, olderThan) ==
    {n \in ReqNames : infos[n] # NoRow /\ olderThan > infos[n].cachedAt}

NeverDone == [n \in ReqNames |-> -1]

InitBackgroundIdle ==
    /\ bUp = [ok |-> FALSE, feed |-> <<>>]
    /\ bPc = "off"
    /\ bLeft = {}
    /\ bName = ""
    /\ bH = 0
    /\ bAt = 0
    /\ bDone = NeverDone

InitBackground ==
    /\ bUp \in [ok : BOOLEAN, feed : HealthyFeeds]
    /\ bPc = "idle"
    /\ bLeft = {}
    /\ bName = ""
    /\ bH = 0
    /\ bAt = 0
    /\ bDone = NeverDone

\* the upstream begins to answer
UpstreamHeals ==
    /\ ~bUp.ok
    /\ bUp' = [bUp EXCEPT !.ok = TRUE]
    /\ UNCHANGED <<bPc, bLeft, bName, bH, bAt, bDone>>
    /\ UNCHANGED dbvars

\* a visitor's request opens the feed (numblr.go:3773): no ForceFresh, and
\* the context of the request has no deadline
VisitorOpen(name) ==
    /\ Len(handles) = 0
    /\ \/ OpenCachedHit(name, FALSE, FALSE)
       \/ bUp.ok /\ OpenCachedFresh(name, FALSE, FALSE, bUp.feed)
       \/ ~bUp.ok /\ OpenCachedFail(name, FALSE, FALSE, "other")
    /\ UNCHANGED bvars

\* the visitor's handler reads a post
VisitorNext ==
    /\ Len(handles) >= 1
    /\ bH # 1
    /\ CachingNext(1) \/ CachedNext(1)
    /\ UNCHANGED bvars

\* the visitor's handler returns and closes the feed
VisitorClose ==
    /\ Len(handles) >= 1
    /\ bH # 1
    /\ CachingClose(1, <<"ok">>) \/ CachedClose(1)
    /\ UNCHANGED bvars

\* the goroutine of database.go:251-283 writes its row
BackgroundRecord ==
    /\ \E t \in tasks : RecordError(t, TRUE)
    /\ UNCHANGED bvars

\* numblr.go:3347-3353: refreshFn starts and lists the stale names
RefreshList ==
    /\ bPc = "idle"
    /\ ListFeedsOlderThan(feedInfos, now - CacheTime) # {}
    /\ bLeft' = ListFeedsOlderThan(feedInfos, now - CacheTime)
    /\ bAt' = now
    /\ bPc' = "next"
    /\ UNCHANGED <<bUp, bName, bH, bDone>>
    /\ UNCHANGED dbvars

\* what refreshFn does when it is through with name
RefreshDone(name) ==
    /\ bDone' = [bDone EXCEPT ![name] = bAt]
    /\ bLeft' = bLeft \ {name}
    /\ bPc' = IF bLeft = {name} THEN "idle" ELSE "next"
    /\ bName' = ""
    /\ bH' = 0

\* numblr.go:3355-3364: anything.Open of the next name, with ForceFresh and
\* under the 10 s deadline; the names come in random order
RefreshOpen(name) ==
    /\ bPc = "next"
    /\ name \in bLeft
    /\ IF bUp.ok
       THEN /\ OpenCachedFresh(name, TRUE, TRUE, bUp.feed)
            /\ bPc' = "iterate"
            /\ bName' = name
            /\ bH' = Len(handles) + 1
            /\ UNCHANGED <<bLeft, bDone>>
       ELSE /\ OpenCachedFail(name, TRUE, TRUE, "other")
            /\ RefreshDone(name)
    /\ UNCHANGED <<bUp, bAt>>

\* numblr.go:3376-3379: feed.Next until it returns an error
RefreshNext ==
    /\ bPc = "iterate"
    /\ CachingNext(bH)
    /\ UNCHANGED bvars

\* numblr.go:3366-3386: the feed is at its end; the deferred function closes it
RefreshCloseFeed ==
    /\ bPc = "iterate"
    /\ handles[bH].last = "EOF"
    /\ CachingClose(bH, <<"ok">>)
    /\ RefreshDone(bName)
    /\ UNCHANGED <<bUp, bAt>>

\* the feeds that were closed, and the calls that returned no feed, are garbage
ForgetClosed ==
    /\ Len(handles) > 0
    /\ \A h \in 1..Len(handles) : handles[h].state # "open"
    /\ handles' = <<>>
    /\ lastCall' = NoCall
    /\ UNCHANGED <<feedInfos, postsTable, tasks, now>>
    /\ UNCHANGED bvars

\* time passes
BackgroundTick ==
    /\ Tick
    /\ UNCHANGED bvars

(***************************************************************************)
(* The deadline of the cached rows.  OpenCached replaces ctx by a context  *)
(* with a 150 ms deadline (database.go:164-167) and runs the query of the  *)
(* cached path under it (database.go:173-196); the feed keeps the cancel   *)
(* function until Close (database.go:204, 508-513).  database/sql closes   *)
(* the rows of QueryContext when the context of the query is done: from    *)
(* then on rows.Next() is false and rows.Err() is the context's error.     *)
(* CachedNext above is Next while the context is alive.                    *)
(***************************************************************************)
\* 150 ms have passed since OpenCached derived the deadline of feed h, and
\* the feed has not been closed: the rows are closed with the context's error
DeadlineExceeded(h) ==
    /\ h \in 1..Len(handles)
    /\ handles[h].kind = "cached"
    /\ handles[h].state = "open"
    /\ handles[h].pendingTimer
    /\ handles' = [handles EXCEPT ![h].pendingTimer = FALSE, ![h].rowsOpen = FALSE]
    /\ lastCall' = NoCall
    /\ UNCHANGED <<feedInfos, postsTable, tasks, now>>

\* databaseCached.Next, database.go:479-486, on rows the context has closed:
\* the error "next: context deadline exceeded"
CachedNextClosedRows(h) ==
    /\ h \in 1..Len(handles)
    /\ handles[h].kind = "cached"
    /\ handles[h].state = "open"
    /\ ~handles[h].rowsOpen
    /\ handles[h].last # "error"
    /\ handles' = [handles EXCEPT ![h].last = "error"]
    /\ lastCall' = NextCall(h)
    /\ UNCHANGED <<feedInfos, postsTable, tasks, now>>

\* databaseCached.Next, database.go:479-506, whatever the state of the rows
CachedNextCtx(h) ==
    \/ /\ h \in 1..Len(handles)
       /\ handles[h].rowsOpen
       /\ CachedNext(h)
    \/ CachedNextClosedRows(h)

(***************************************************************************)
(* The open tasks of a request (numblr.go:3745-3849): one goroutine per    *)
(* selected feed opens the feed; the handler waits for them, merges the    *)
(* feeds that opened and reports an error.  The goroutines assign the      *)
(* shared variable err, and each writes its entry of the map feedInfo      *)
(* after wg.Done(), while the handler ranges over feedInfo without the     *)
(* mutex: a data race, in which the runtime either lets the range see the  *)
(* entries written so far or ends the process with "concurrent map         *)
(* iteration and map write".                                               *)
(***************************************************************************)
\* the selected feeds, none of them with the prefix ":"
OpenFeedIds == {1, 2, 3}

NoReport == [err |-> 0, more |-> 0]

InitOpensIdle ==
    /\ oOk = [i \in OpenFeedIds |-> TRUE]
    /\ oPc = [i \in OpenFeedIds |-> "idle"]
    /\ oFeeds = {}
    /\ oErr = 0
    /\ oInfo = {}
    /\ oHandler = "idle"
    /\ oMerged = {}
    /\ oReport = NoReport

\* numblr.go:3745-3753: the goroutines are started
InitOpens ==
    /\ oOk \in [OpenFeedIds -> BOOLEAN]
    /\ oPc = [i \in OpenFeedIds |-> "open"]
    /\ oFeeds = {}
    /\ oErr = 0
    /\ oInfo = {}
    /\ oHandler = "wait"
    /\ oMerged = {}
    /\ oReport = NoReport

\* numblr.go:3773-3776: anything.Open returns; feeds[i] and, after a
\* failure, err are assigned
OpenTaskOpen(i) ==
    /\ oPc[i] = "open"
    /\ oFeeds' = IF oOk[i] THEN oFeeds \cup {i} ELSE oFeeds
    /\ oErr' = IF oOk[i] THEN oErr ELSE i
    /\ oPc' = [oPc EXCEPT ![i] = "opened"]
    /\ UNCHANGED <<oOk, oInfo, oHandler, oMerged, oReport>>

\* numblr.go:3755-3756: the deferred function begins with wg.Done()
OpenTaskDone(i) ==
    /\ oPc[i] = "opened"
    /\ oPc' = [oPc EXCEPT ![i] = "done"]
    /\ UNCHANGED <<oOk, oFeeds, oErr, oInfo, oHandler, oMerged, oReport>>

\* numblr.go:3757-3767: the deferred function writes feedInfo under the
\* mutex; crash tells whether the runtime meets this write during the
\* handler's range over the map
OpenTaskRecord(i, crash) ==
    /\ oPc[i] = "done"
    /\ oHandler # "fatal"
    /\ crash => oHandler = "count"
    /\ oInfo' = oInfo \cup {i}
    /\ oPc' = [oPc EXCEPT ![i] = "recorded"]
    /\ oHandler' = IF crash THEN "fatal" ELSE oHandler
    /\ UNCHANGED <<oOk, oFeeds, oErr, oMerged, oReport>>

\* numblr.go:3818-3827: wg.Wait() returns, the feeds that opened are merged
HandlerMerge ==
    /\ oHandler = "wait"
    /\ \A i \in OpenFeedIds : oPc[i] \in {"done", "recorded"}
    /\ oMerged' = oFeeds
    /\ oHandler' = IF oErr # 0 THEN "count" ELSE "serve"
    /\ UNCHANGED <<oOk, oPc, oFeeds, oErr, oInfo, oReport>>

\* numblr.go:3828-3843: the entries of feedInfo with an error are counted and
\* the error is written to the response
HandlerReport ==
    /\ oHandler = "count"
    /\ LET numErrors == Cardinality({i \in oInfo : ~oOk[i]})
       IN  oReport' = [err |-> oErr, more |-> IF numErrors > 1 THEN numErrors - 1 ELSE 0]
    /\ oHandler' = "serve"
    /\ UNCHANGED <<oOk, oPc, oFeeds, oErr, oInfo, oMerged>>

(***************************************************************************)
(* The specifications                                                      *)
(***************************************************************************)
\* every part but the one a specification drives stays idle
InitOthersIdle ==
    /\ InitPageIdle /\ InitHandlerIdle /\ InitRefresherIdle /\ InitTasksIdle
    /\ InitDispatchIdle /\ InitMatchIdle /\ InitLruIdle /\ InitOpensIdle /\ InitBackgroundIdle /\ InitFollowIdle /\ InitGroupIdle /\ InitParseIdle

InitMerge == InitMerger /\ InitStore /\ InitSearchIdle /\ InitOthersIdle

NextMerge ==
    \/ MergeNextBegin /\ UNCHANGED notMerge
    \/ \E i \in FeedIdx : MergeChildFetch(i) /\ UNCHANGED notMerge
    \/ MergeNextSelect /\ UNCHANGED notMerge
    \/ MergeClose /\ UNCHANGED notMerge

SpecMerge == InitMerge /\ [][NextMerge]_vars

Init == InitMergerIdle /\ InitStore /\ InitSearchIdle /\ InitOthersIdle

InitSearchSpec == InitMergerIdle /\ InitStore /\ InitSearch /\ InitOthersIdle

NextSearch ==
    \/ SearchReadPushedDown /\ UNCHANGED notSearch
    \/ SearchReadInMemory /\ UNCHANGED notSearch

SpecSearch == InitSearchSpec /\ [][NextSearch]_vars

InitPageSpec ==
    /\ InitMergerIdle /\ InitStore /\ InitSearchIdle /\ InitPage
    /\ InitHandlerIdle /\ InitRefresherIdle /\ InitTasksIdle /\ InitDispatchIdle
    /\ InitMatchIdle /\ InitLruIdle /\ InitOpensIdle /\ InitBackgroundIdle /\ InitFollowIdle /\ InitGroupIdle /\ InitParseIdle

NextPage ==
    \/ PageReadCached /\ UNCHANGED notPage
    \/ PageClose /\ UNCHANGED notPage

SpecPage == InitPageSpec /\ [][NextPage]_vars

\* a behaviour follows one request to HandleTumblr or the refresher
InitServe ==
    /\ InitMergerIdle /\ InitStore /\ InitSearchIdle /\ InitPageIdle
    /\ InitRefresherIdle /\ InitTasksIdle /\ InitDispatchIdle
    /\ InitMatchIdle /\ InitLruIdle /\ InitOpensIdle /\ InitBackgroundIdle /\ InitFollowIdle /\ InitGroupIdle /\ InitParseIdle
    /\ InitHandler \/ InitHandlerIdle

NextServe ==
    \/ \E opened \in SUBSET FeedSel : HandlerOpen(opened) /\ UNCHANGED notHandler
    \/ HandlerSkipFirst /\ UNCHANGED notHandler
    \/ HandlerSkipLoop /\ UNCHANGED notHandler
    \/ HandlerCollectFirst /\ UNCHANGED notHandler
    \/ HandlerCollectLoop /\ UNCHANGED notHandler
    \/ HandlerReturn /\ UNCHANGED notHandler
    \/ \E t \in 1..MaxTicks, n \in StaleCounts : RefreshTick(t, n) /\ UNCHANGED notRefresher
    \/ \E t \in 1..MaxTicks : RefreshStartOpen(t) /\ UNCHANGED notRefresher
    \/ \E t \in 1..MaxTicks, ok \in BOOLEAN : RefreshOpened(t, ok) /\ UNCHANGED notRefresher
    \/ \E t \in 1..MaxTicks : RefreshAcquire(t) /\ UNCHANGED notRefresher
    \/ \E t \in 1..MaxTicks : RefreshIterate(t) /\ UNCHANGED notRefresher
    \/ \E t \in 1..MaxTicks : RefreshClose(t) /\ UNCHANGED notRefresher

SpecServe == InitServe /\ [][NextServe]_vars

\* The handler's goroutine and the refreshFn goroutines keep running: every
\* step that can be taken is taken.  A send on the full channel waits in the
\* channel's queue of senders, which is served first come first served, so a
\* refreshFn that waits for a place gets one when places keep being freed.
FairServe ==
    /\ WF_vars((\/ HandlerSkipFirst \/ HandlerSkipLoop \/ HandlerCollectFirst
                \/ HandlerCollectLoop \/ HandlerReturn) /\ UNCHANGED notHandler)
    /\ \A t \in 1..MaxTicks :
          /\ WF_vars((RefreshIterate(t) \/ RefreshClose(t)) /\ UNCHANGED notRefresher)
          /\ SF_vars(RefreshAcquire(t) /\ UNCHANGED notRefresher)

FairSpecServe == SpecServe /\ FairServe

InitTasksSpec ==
    /\ InitMergerIdle /\ InitStore /\ InitSearchIdle /\ InitPageIdle
    /\ InitHandlerIdle /\ InitRefresherIdle /\ InitTasks /\ InitDispatchIdle
    /\ InitMatchIdle /\ InitLruIdle /\ InitOpensIdle /\ InitBackgroundIdle /\ InitFollowIdle /\ InitGroupIdle /\ InitParseIdle

\* the steps of task k
TaskStep(k) ==
    \/ TaskOpen(k)
    \/ TaskNext(k)
    \/ TaskSaveBegin(k)
    \/ TaskSaveExec(k)
    \/ \E r \in CommitOutcomes : TaskCommit(k, r)

NextTasks ==
    \/ \E k \in 1..MaxTasks : TaskOpen(k) /\ UNCHANGED notTasks
    \/ \E k \in 1..MaxTasks : TaskNext(k) /\ UNCHANGED notTasks
    \/ \E k \in 1..MaxTasks : TaskSaveBegin(k) /\ UNCHANGED notTasks
    \/ \E k \in 1..MaxTasks : TaskSaveExec(k) /\ UNCHANGED notTasks
    \/ \E k \in 1..MaxTasks, r \in CommitOutcomes : TaskCommit(k, r) /\ UNCHANGED notTasks
    \/ TaskCheckpoint /\ UNCHANGED notTasks

SpecTasks == InitTasksSpec /\ [][NextTasks]_vars

\* every task is a goroutine that keeps running
FairSpecTasks ==
    SpecTasks /\ \A k \in 1..MaxTasks : WF_vars(TaskStep(k) /\ UNCHANGED notTasks)

InitDispatchSpec ==
    /\ InitMergerIdle /\ InitStore /\ InitSearchIdle /\ InitPageIdle
    /\ InitHandlerIdle /\ InitRefresherIdle /\ InitTasksIdle /\ InitDispatch
    /\ InitMatchIdle /\ InitLruIdle /\ InitOpensIdle /\ InitBackgroundIdle /\ InitFollowIdle /\ InitGroupIdle /\ InitParseIdle

NextDispatch == AnythingOpen /\ UNCHANGED notDispatch

SpecDispatch == InitDispatchSpec /\ [][NextDispatch]_vars

InitMatchSpec ==
    /\ InitMergerIdle /\ InitStore /\ InitSearchIdle /\ InitPageIdle
    /\ InitHandlerIdle /\ InitRefresherIdle /\ InitTasksIdle /\ InitDispatchIdle
    /\ InitMatch /\ InitLruIdle /\ InitOpensIdle /\ InitBackgroundIdle /\ InitFollowIdle /\ InitGroupIdle /\ InitParseIdle

NextMatch == SearchMatches /\ UNCHANGED notMatch

SpecMatch == InitMatchSpec /\ [][NextMatch]_vars

NextLru ==
    \/ \E n \in LruNames : NewCachedHit(n) /\ UNCHANGED notLru
    \/ \E n \in LruNames, f \in LruUpstreams : NewCachedMiss(n, f) /\ UNCHANGED notLru
    \/ \E n \in LruNames : NewCachedFail(n) /\ UNCHANGED notLru
    \/ \E h \in 1..Len(lFeeds) : LruCachingNext(h) /\ UNCHANGED notLru
    \/ \E h \in 1..Len(lFeeds) : LruCachingClose(h) /\ UNCHANGED notLru
    \/ \E h \in 1..Len(lFeeds) : LruCachedNext(h) /\ UNCHANGED notLru
    \/ \E h \in 1..Len(lFeeds) : LruCachedClose(h) /\ UNCHANGED notLru
    \/ LruTick /\ UNCHANGED notLru

\* the in-memory cache starts empty: Init is its state after lru.New
SpecLru == Init /\ [][NextLru]_vars

InitParseSpec ==
    /\ InitMergerIdle /\ InitStore /\ InitSearchIdle /\ InitPageIdle
    /\ InitHandlerIdle /\ InitRefresherIdle /\ InitTasksIdle /\ InitDispatchIdle
    /\ InitMatchIdle /\ InitLruIdle /\ InitOpensIdle /\ InitBackgroundIdle /\ InitFollowIdle /\ InitGroupIdle /\ InitParse

NextParse ==
    \/ ParseStep /\ UNCHANGED notParse
    \/ ParseReturn /\ UNCHANGED notParse

SpecParse == InitParseSpec /\ [][NextParse]_vars

\* ParseTerms runs in the goroutine of its caller, which keeps running
FairSpecParse == SpecParse /\ WF_vars(NextParse)

InitGroupSpec ==
    /\ InitMergerIdle /\ InitStore /\ InitSearchIdle /\ InitPageIdle
    /\ InitHandlerIdle /\ InitRefresherIdle /\ InitTasksIdle /\ InitDispatchIdle
    /\ InitMatchIdle /\ InitLruIdle /\ InitOpensIdle /\ InitBackgroundIdle /\ InitFollowIdle /\ InitParseIdle /\ InitGroup

NextGroup ==
    \/ GroupFirst /\ UNCHANGED notGroup
    \/ GroupLoop /\ UNCHANGED notGroup
    \/ GroupEnd /\ UNCHANGED notGroup

SpecGroup == InitGroupSpec /\ [][NextGroup]_vars

InitFollowSpec ==
    /\ InitMergerIdle /\ InitStore /\ InitSearchIdle /\ InitPageIdle
    /\ InitHandlerIdle /\ InitRefresherIdle /\ InitTasksIdle /\ InitDispatchIdle
    /\ InitMatchIdle /\ InitLruIdle /\ InitOpensIdle /\ InitBackgroundIdle /\ InitParseIdle /\ InitGroupIdle /\ InitFollow

NextFollow ==
    \/ \E mode \in {"live", "cache"} : FollowFirstPage(mode) /\ UNCHANGED notFollow
    \/ \E mode \in {"live", "cache"} : FollowNextPage(mode) /\ UNCHANGED notFollow

SpecFollow == InitFollowSpec /\ [][NextFollow]_vars

InitBackgroundSpec ==
    /\ InitMergerIdle /\ InitStore /\ InitSearchIdle /\ InitPageIdle
    /\ InitHandlerIdle /\ InitRefresherIdle /\ InitTasksIdle /\ InitDispatchIdle
    /\ InitMatchIdle /\ InitLruIdle /\ InitOpensIdle /\ InitParseIdle /\ InitGroupIdle /\ InitFollowIdle
    /\ InitBackground

\* the steps of the visitors and of the upstream
NextVisitors ==
    \/ UpstreamHeals /\ UNCHANGED notBackground
    \/ \E n \in ReqNames : VisitorOpen(n) /\ UNCHANGED notBackground

\* the steps of the handlers and goroutines that are under way
NextHandlers ==
    \/ VisitorNext /\ UNCHANGED notBackground
    \/ VisitorClose /\ UNCHANGED notBackground
    \/ BackgroundRecord /\ UNCHANGED notBackground
    \/ ForgetClosed /\ UNCHANGED notBackground

\* the steps of refreshFn
NextRefreshFn ==
    \/ RefreshList /\ UNCHANGED notBackground
    \/ \E n \in ReqNames : RefreshOpen(n) /\ UNCHANGED notBackground
    \/ RefreshNext /\ UNCHANGED notBackground
    \/ RefreshCloseFeed /\ UNCHANGED notBackground

NextClock == BackgroundTick /\ UNCHANGED notBackground

NextBackground ==
    \/ NextVisitors
    \/ NextHandlers
    \/ NextRefreshFn
    \/ NextClock

SpecBackground == InitBackgroundSpec /\ [][NextBackground]_vars

\* The loop of numblr.go:3399-3403 starts refreshFn every minute and refreshFn
\* runs to its end; handlers and goroutines that were started run to their
\* end; the clock advances.  Visitors come or stay away.
FairSpecBackground ==
    SpecBackground /\ WF_vars(NextRefreshFn) /\ WF_vars(NextHandlers) /\ WF_vars(NextClock)

\* requests whose context has no deadline, without ForceFresh; the upstream
\* answers and commits succeed
NextDeadline ==
    \/ \E n \in ReqNames : OpenCachedHit(n, FALSE, FALSE) /\ UNCHANGED notDb
    \/ \E n \in ReqNames :
          \E f \in UpstreamFeeds(Canon(n)) : OpenCachedFresh(n, FALSE, FALSE, f) /\ UNCHANGED notDb
    \/ \E h \in 1..Len(handles) : CachingNext(h) /\ UNCHANGED notDb
    \/ \E h \in 1..Len(handles) : CachingClose(h, <<"ok">>) /\ UNCHANGED notDb
    \/ \E h \in 1..Len(handles) : DeadlineExceeded(h) /\ UNCHANGED notDb
    \/ \E h \in 1..Len(handles) : CachedNextCtx(h) /\ UNCHANGED notDb
    \/ \E h \in 1..Len(handles) : CachedClose(h) /\ UNCHANGED notDb
    \/ Tick /\ UNCHANGED notDb

SpecDeadline == Init /\ [][NextDeadline]_vars

InitOpensSpec ==
    /\ InitMergerIdle /\ InitStore /\ InitSearchIdle /\ InitPageIdle
    /\ InitHandlerIdle /\ InitRefresherIdle /\ InitTasksIdle /\ InitDispatchIdle
    /\ InitMatchIdle /\ InitLruIdle /\ InitParseIdle /\ InitGroupIdle /\ InitFollowIdle
    /\ InitBackgroundIdle /\ InitOpens

NextOpens ==
    \/ \E i \in OpenFeedIds : OpenTaskOpen(i) /\ UNCHANGED notOpens
    \/ \E i \in OpenFeedIds : OpenTaskDone(i) /\ UNCHANGED notOpens
    \/ \E i \in OpenFeedIds, crash \in BOOLEAN : OpenTaskRecord(i, crash) /\ UNCHANGED notOpens
    \/ HandlerMerge /\ UNCHANGED notOpens
    \/ HandlerReport /\ UNCHANGED notOpens

SpecOpens == InitOpensSpec /\ [][NextOpens]_vars

Next ==
    \/ \E n \in ReqNames, ff \in BOOLEAN, ht \in BOOLEAN :
          OpenCachedHit(n, ff, ht) /\ UNCHANGED notDb
    \/ \E n \in ReqNames, ff \in BOOLEAN, ht \in BOOLEAN :
          \E f \in UpstreamFeeds(Canon(n)) : OpenCachedFresh(n, ff, ht, f) /\ UNCHANGED notDb
    \/ \E n \in ReqNames, ff \in BOOLEAN, ht \in BOOLEAN :
          \E e \in UpstreamErrors : OpenCachedFail(n, ff, ht, e) /\ UNCHANGED notDb
    \/ \E t \in tasks, w \in BOOLEAN : RecordError(t, w) /\ UNCHANGED notDb
    \/ \E h \in 1..Len(handles) : CachingNext(h) /\ UNCHANGED notDb
    \/ \E h \in 1..Len(handles), rs \in CommitResults : CachingClose(h, rs) /\ UNCHANGED notDb
    \/ \E h \in 1..Len(handles) : CachedNext(h) /\ UNCHANGED notDb
    \/ \E h \in 1..Len(handles) : CachedClose(h) /\ UNCHANGED notDb
    \/ Tick /\ UNCHANGED notDb

Spec == Init /\ [][Next]_vars

(***************************************************************************)
(* Properties of the merger (checked under SpecMerge)                      *)
(***************************************************************************)
\* the posts a child returns when it is iterated alone until end-of-feed
PostsOf(script) == {script[k] : k \in {j \in 1..Len(script) : script[j].kind = "post"}}

\* a child emits its posts in non-increasing date order
ChildSorted(script) ==
    \A j, k \in 1..Len(script) :
        (j < k /\ script[j].kind = "post" /\ script[k].kind = "post")
            => script[j].date >= script[k].date

PostIdent(p) == <<p.feed, p.id>>

\* C1: when every child emits its posts in non-increasing date order, the
\* posts merger.Next has returned so far are in non-increasing date order.
C1_MergeMonotone ==
    (\A i \in FeedIdx : ChildSorted(mScripts[i]))
        => \A k \in 1..(Len(mEmitted) - 1) : mEmitted[k].date >= mEmitted[k + 1].date

\* C2: when merger.Next returns end-of-feed for the first time, the posts it
\* has returned are exactly the posts of all children, each once.
C2_MergeComplete ==
    (mPc = "idle" /\ mResult = "EOF" /\ mEOFs = 1)
        => /\ {PostIdent(p) : p \in Range(mEmitted)}
                = UNION {{PostIdent(p) : p \in PostsOf(mScripts[i])} : i \in FeedIdx}
           /\ \A j, k \in 1..Len(mEmitted) :
                  j # k => PostIdent(mEmitted[j]) # PostIdent(mEmitted[k])

(***************************************************************************)
(* Properties of the durable cache (checked under Spec)                    *)
(***************************************************************************)
OpenedHandle == handles[lastCall.h]

RowHasError(row) == row.error # Nil /\ row.error # ""

RowIsFresh(row) == row # NoRow /\ now - row.cachedAt < CacheTime /\ ~RowHasError(row)

\* the posts a cached feed returns when it is read to its end
RECURSIVE ScanRows(_, _)
ScanRows(rows, outOfDate) ==
    IF rows = <<>> THEN <<>>
    ELSE <<ScanRow(Head(rows), outOfDate)>> \o ScanRows(Tail(rows), outOfDate)

\* C3: after a caching feed was read to end-of-feed and closed without error,
\* an OpenCached of the same name without force_fresh within CacheTime of that
\* close does not invoke the upstream and returns a feed that emits the posts
\* the caching feed returned, in the same order.
C3_CacheIdempotent ==
    \A h1 \in 1..Len(handles) :
        ( /\ handles[h1].kind = "caching"
          /\ handles[h1].state = "closed"
          /\ handles[h1].closeErr = ""
          /\ handles[h1].last = "EOF"
          /\ lastCall.op = "open"
          /\ lastCall.h # h1
          /\ OpenedHandle.name = handles[h1].name
          /\ ~lastCall.forceFresh
          /\ now - handles[h1].closedAt < CacheTime )
        => /\ lastCall.upstream = "notcalled"
           /\ OpenedHandle.kind = "cached"
           /\ ScanRows(OpenedHandle.rows, OpenedHandle.outOfDate) = handles[h1].posts

\* C4: an OpenCached without force_fresh that finds the feed_infos row fresh,
\* or finds it carrying an error (at any age), does not invoke the upstream
\* and returns a cached feed positioned on the stored posts of the name.
C4_FreshOrErrorServedFromStore ==
    ( /\ lastCall.op = "open"
      /\ ~lastCall.forceFresh
      /\ (RowIsFresh(lastCall.row) \/ RowHasError(lastCall.row)) )
    => /\ lastCall.upstream = "notcalled"
       /\ lastCall.err = ""
       /\ OpenedHandle.kind = "cached"
       /\ OpenedHandle.rows = QueryPosts(postsTable, OpenedHandle.name)

\* C4 witness: a row with an error, older than CacheTime, was served from the store
C4_Witness ==
    /\ lastCall.op = "open"
    /\ ~lastCall.forceFresh
    /\ RowHasError(lastCall.row)
    /\ now - lastCall.row.cachedAt >= CacheTime
    /\ OpenedHandle.kind = "cached"

\* C5: an OpenCached without force_fresh that finds a feed_infos row and whose
\* upstream open runs into the derived deadline, or fails with a timeout
\* error, returns no error but a cached feed on the stored posts of the name
\* whose Notes hold "timeout"; every post such a feed returns carries the tag
\* numblr:out-of-date.
C5_TimeoutFallback ==
    /\ ( /\ lastCall.op = "open"
         /\ ~lastCall.forceFresh
         /\ lastCall.row # NoRow
         /\ lastCall.upstream \in {"deadline", "timeout"} )
       => /\ lastCall.err = ""
          /\ OpenedHandle.kind = "cached"
          /\ "timeout" \in Range(OpenedHandle.notes)
          /\ OpenedHandle.rows = QueryPosts(postsTable, OpenedHandle.name)
    /\ \A h \in 1..Len(handles) :
          "timeout" \in Range(handles[h].notes)
              => \A p \in Range(handles[h].posts) : "numblr:out-of-date" \in Range(p.tags)

\* C5 witness: a feed served after the derived deadline expired has returned a post
C5_Witness ==
    \E h \in 1..Len(handles) :
        /\ "timeout" \in Range(handles[h].notes)
        /\ Len(handles[h].posts) > 0

\* C6: when the upstream open fails with a 404 status error, OpenCached
\* returns a cached feed with Notes "not-found" exactly when a feed_infos row
\* exists for the name, and returns an error when no row exists.
C6_NotFoundFallback ==
    (lastCall.op = "open" /\ lastCall.upstream = "404")
    => /\ (OpenedHandle.kind = "cached" /\ OpenedHandle.notes = <<"not-found">>)
              <=> lastCall.row # NoRow
       /\ lastCall.row = NoRow => lastCall.err # ""

\* C7: after a Close of a caching feed that returned no error, the posts
\* table holds, under the key (source, feed name, id) of every post Next
\* returned, a row that reads back as that post.
C7_PostsPersisted ==
    (lastCall.op = "close" /\ lastCall.err = "" /\ OpenedHandle.kind = "caching")
    => \A p \in Range(OpenedHandle.posts) :
          \E r \in postsTable :
              /\ RowKey(r) = <<p.source, OpenedHandle.uname, p.id>>
              /\ ScanRow(r, FALSE) = p

\* C7 witness: a caching feed that returned two posts was closed without error
C7_Witness ==
    /\ lastCall.op = "close"
    /\ lastCall.err = ""
    /\ OpenedHandle.kind = "caching"
    /\ Len(OpenedHandle.posts) = 2

\* C8: after a Close of a caching feed that returned no error, feed_infos
\* holds a row for the feed with an empty error and the cached_at that close
\* wrote, however many posts were returned.
C8_FeedInfoWritten ==
    (lastCall.op = "close" /\ lastCall.err = "" /\ OpenedHandle.kind = "caching")
    => /\ feedInfos[OpenedHandle.uname] # NoRow
       /\ feedInfos[OpenedHandle.uname].error = ""
       /\ feedInfos[OpenedHandle.uname].cachedAt = OpenedHandle.cachedAt

HasInvalidPost(ps) == \E p \in Range(ps) : p.id = 0 \/ p.source = ""

\* C9: a Close of a caching feed that has returned a post with an empty id or
\* an empty source returns an error and leaves posts and feed_infos as they were.
C9_InvalidPostAtomic ==
    [][\A h \in 1..Len(handles) :
          ( /\ handles[h].kind = "caching"
            /\ handles[h].state = "open"
            /\ handles'[h].state = "closed"
            /\ HasInvalidPost(handles[h].posts) )
          => /\ handles'[h].closeErr # ""
             /\ postsTable' = postsTable
             /\ feedInfos' = feedInfos]_vars

\* C9 witness: a close has failed on a post with an empty source that followed
\* nothing invalid
C9_Witness ==
    \E h \in 1..Len(handles) :
        /\ handles[h].state = "closed"
        /\ handles[h].closeErr = "empty post source"

RowsOf(ct) == {PostRow(ct.uname, p) : p \in Range(ct.posts)}

\* C10: Next of a caching feed leaves the store alone; a Close of a caching
\* feed either leaves posts and feed_infos as they were, or returns no error
\* and has written the rows of exactly the posts Next had returned, replacing
\* only rows of the same keys; a Close without error of a feed that returned
\* posts has written them.
C10_DeferredAtomicWrite ==
    [][\A h \in 1..Len(handles) :
          /\ (lastCall'.op = "next" /\ lastCall'.h = h)
                => (postsTable' = postsTable /\ feedInfos' = feedInfos)
          /\ (lastCall'.op = "close" /\ lastCall'.h = h /\ handles[h].kind = "caching")
                => \/ postsTable' = postsTable /\ feedInfos' = feedInfos
                   \/ /\ handles'[h].closeErr = ""
                      /\ RowsOf(handles[h]) \subseteq postsTable'
                      /\ postsTable' \ postsTable \subseteq RowsOf(handles[h])
                      /\ \A r \in postsTable \ postsTable' :
                            \E q \in RowsOf(handles[h]) : RowKey(q) = RowKey(r)
          /\ ( /\ lastCall'.op = "close" /\ lastCall'.h = h
               /\ handles[h].kind = "caching"
               /\ handles'[h].closeErr = ""
               /\ handles[h].posts # <<>> )
                => RowsOf(handles[h]) \subseteq postsTable']_vars

\* C10 witness: a caching feed was closed without error before it reached
\* end-of-feed, and its post is in the store
C10_Witness ==
    /\ lastCall.op = "close"
    /\ lastCall.err = ""
    /\ OpenedHandle.kind = "caching"
    /\ OpenedHandle.last = "post"
    /\ RowsOf(OpenedHandle) \subseteq postsTable
    /\ OpenedHandle.posts # <<>>

(***************************************************************************)
(* Error recording, writers and resources of the cache (checked under Spec)*)
(***************************************************************************)
\* the upstream open of this call failed, and neither the timeout branch of
\* database.go:234 nor the 404 branch of database.go:286 took the error
FailedOpen(c) ==
    /\ c.op = "open"
    /\ c.upstream \notin {"ok", "notcalled", "404"}
    /\ ~(~c.forceFresh /\ c.row # NoRow
          /\ c.upstream \in {"deadline", "callerDeadline", "timeout"})

\* C11: an OpenCached whose upstream open fails with an error that neither the
\* timeout fallback nor the 404 fallback takes returns that error wrapped and
\* no feed, and leaves a task for the requested name and that error; a task
\* that runs and commits sets the error column of the row of its name to the
\* error text, and a task of an open that found no row and failed with "no
\* such host" changes nothing.
C11_ErrorReturnedAndRecorded ==
    [][/\ (handles' # handles /\ FailedOpen(lastCall'))
          => /\ handles'[lastCall'.h].kind = "error"
             /\ lastCall'.err = "open uncached"
             /\ \E t \in tasks' :
                   /\ t.name = handles'[lastCall'.h].name
                   /\ t.err = lastCall'.upstream
                   /\ t.isCached = (lastCall'.row # NoRow)
       /\ \A t \in tasks \ tasks' :
             IF ~t.isCached /\ t.err = "nohost"
             THEN feedInfos' = feedInfos
             ELSE lastCall'.err = ""
                     => /\ feedInfos'[t.name].error = t.err
                        /\ \A n \in ReqNames \ {t.name} : feedInfos'[n] = feedInfos[n]
      ]_vars

\* C11 witness: the task of a failed open has written its error into the row
C11_Witness ==
    /\ lastCall.op = "record"
    /\ lastCall.wtx = 1
    /\ lastCall.err = ""
    /\ \E n \in ReqNames : feedInfos[n].error = "other"
    /\ \E h \in 1..Len(handles) : handles[h].kind = "error"

\* C12: the task started by an open whose upstream returned a 404 while the
\* feed had a row and stored posts leaves the error column of that row as it
\* was.
C12_NotFoundWritesNoError ==
    [][\A t \in tasks \ tasks' :
          (t.err = "404" /\ t.isCached /\ QueryPosts(postsTable, t.name) # <<>>)
             => feedInfos'[t.name].error = feedInfos[t.name].error]_vars

\* the step changes feed_infos or posts
StoreChanges == feedInfos' # feedInfos \/ postsTable' # postsTable

\* the step is a Close of a caching feed
CachingCloseStep ==
    /\ lastCall'.op = "close"
    /\ lastCall'.h \in 1..Len(handles)
    /\ handles[lastCall'.h].kind = "caching"

\* C13 as stated: only the Close of a caching feed changes feed_infos or
\* posts, and it begins at most one write transaction.
C13_OnlySaveWrites ==
    [][/\ StoreChanges => CachingCloseStep
       /\ lastCall'.wtx <= 1]_vars

\* C13 amended: feed_infos and posts are changed only by the Close of a caching
\* feed and by the error-recording task of a failed OpenCached, each within at
\* most one write transaction; the task changes nothing but the feed_infos row
\* of its name; OpenCached, Next of either feed and Close of a cached feed
\* begin no write transaction and change nothing.
C13_OnlySaveAndErrorTaskWrite ==
    [][/\ StoreChanges
          => \/ CachingCloseStep
             \/ /\ lastCall'.op = "record"
                /\ postsTable' = postsTable
                /\ \E t \in tasks \ tasks' :
                      \A n \in ReqNames \ {t.name} : feedInfos'[n] = feedInfos[n]
       /\ lastCall'.wtx <= 1
       /\ (vars' # vars /\ lastCall'.op \in {"open", "next"})
          => (lastCall'.wtx = 0 /\ ~StoreChanges)
       /\ (vars' # vars /\ lastCall'.op = "close" /\ ~CachingCloseStep)
          => (lastCall'.wtx = 0 /\ ~StoreChanges)]_vars

\* C13 witness: the store holds rows written by a Close and an error written
\* by a task that has just run
C13_Witness ==
    /\ lastCall.op = "record"
    /\ lastCall.wtx = 1
    /\ postsTable # {}
    /\ \E n \in ReqNames : feedInfos[n] # NoRow /\ feedInfos[n].error \notin {Nil, ""}

\* C14: a Close of a caching feed calls tx.Commit() at most 3 times, each call
\* after the first following a busy failure; when the last call failed Close
\* returns the commit error; and whatever Save returned, the adapter's Close
\* has been called once (and never before the Close of the caching feed).
C14_CommitRetryAndAdapterClose ==
    /\ (lastCall.op = "close" /\ OpenedHandle.kind = "caching")
          => /\ lastCall.tries <= 3
             /\ lastCall.tries <= Len(lastCall.commits)
             /\ \A k \in 1..(lastCall.tries - 1) : lastCall.commits[k] = "busy"
             /\ (lastCall.tries >= 1 /\ lastCall.commits[lastCall.tries] # "ok")
                   => lastCall.err = "commit"
             /\ (lastCall.tries >= 1 /\ lastCall.commits[lastCall.tries] = "ok")
                   => lastCall.err = ""
    /\ \A h \in 1..Len(handles) :
          handles[h].kind = "caching"
             => handles[h].uncachedCloses = IF handles[h].state = "closed" THEN 1 ELSE 0

\* C14 witness: three commits were tried, all busy, and the adapter was closed
C14_Witness ==
    /\ lastCall.op = "close"
    /\ lastCall.tries = 3
    /\ lastCall.err = "commit"
    /\ OpenedHandle.uncachedCloses = 1

\* C15: the read-only transaction of an OpenCached call that returned an error
\* or a caching feed was rolled back once before the return; that of a call
\* that returned a cached feed is rolled back once, by the Close of that feed
\* and not before, and that Close also disarms the timer and closes the rows.
C15_ReadTxReleasedOnce ==
    \A h \in 1..Len(handles) :
        /\ handles[h].kind \in {"error", "caching"}
              => /\ handles[h].txRollbacks = 1
                 /\ ~handles[h].pendingTimer
                 /\ ~handles[h].rowsOpen
        /\ (handles[h].kind = "cached" /\ handles[h].state = "open")
              => /\ handles[h].txRollbacks = 0
                 /\ handles[h].rowsOpen
        /\ (handles[h].kind = "cached" /\ handles[h].state = "closed")
              => /\ handles[h].txRollbacks = 1
                 /\ ~handles[h].pendingTimer
                 /\ ~handles[h].rowsOpen

\* C15 witness: a cached feed of the timeout fallback, whose 500 ms timer was
\* armed when it was returned, has been closed
C15_Witness ==
    /\ lastCall.op = "close"
    /\ OpenedHandle.kind = "cached"
    /\ OpenedHandle.notes = <<"timeout">>
    /\ OpenedHandle.state = "closed"

(***************************************************************************)
(* The protocol of merger.Next (checked under SpecMerge)                   *)
(***************************************************************************)
\* C16: once Next of the merged feed has returned end-of-feed, no later Next
\* on it returns a post or another error.
C16_EndOfFeedIsTerminal ==
    mEOFs >= 1 => mResult \in {"EOF", "none"}

\* a Next of the merger begun in this state returns in the next one
MergeNextReturns == mPc = "fetching" /\ mPc' = "idle"

\* C17: after Close, Next of a Static child puts no post into its slot and
\* Next of the merged feed over Static children returns no post.
C17_NoPostAfterClose ==
    [][mClosed
          => /\ \A i \in FeedIdx : mPosts'[i] # mPosts[i] => mPosts'[i] = NoPost
             /\ MergeNextReturns => mResult' # "post"]_vars

\* child i had its Next called in this step
ChildCalled(i) ==
    \/ mFeeds'[i] # mFeeds[i]
    \/ mErrors'[i] # mErrors[i]
    \/ mPosts[i] = NoPost /\ mPosts'[i] # NoPost

\* C18: a Next of the merged feed that starts while every child has a non-nil
\* error recorded calls no child.
C18_AllErrorsCallsNoChild ==
    [][(mPc = "fetching" /\ mPending = FeedIdx /\ \A i \in FeedIdx : mErrors[i] # Nil)
          => \A i \in FeedIdx : ~ChildCalled(i)]_vars

\* C19: a child's Next is called only by its own goroutine of a running merged
\* Next, once per merged Next, and only while its head slot is empty and it has
\* not reported end-of-feed; every merged Next starts one goroutine per child
\* and returns only when all of them have finished.
C19_OneCallPerChildPerNext ==
    [][/\ \A i \in FeedIdx :
             ChildCalled(i)
                => /\ mPc = "fetching"
                   /\ i \in mPending
                   /\ mPending' = mPending \ {i}
                   /\ mPosts[i] = NoPost
                   /\ mErrors[i] # "EOF"
                   /\ \A j \in FeedIdx \ {i} : ~ChildCalled(j)
       /\ MergeNextReturns => mPending = {}
       /\ (mPc = "idle" /\ mPc' = "fetching") => mPending' = FeedIdx]_vars

\* C19 witness: in a merged Next after the first, all goroutines have finished;
\* one child is at end-of-feed, the other holds a post it was called for
C19_Witness ==
    /\ mPc = "fetching"
    /\ mPending = {}
    /\ Len(mEmitted) >= 1
    /\ \E i, j \in FeedIdx :
          /\ mErrors[i] = "EOF"
          /\ mPosts[j] # NoPost
          /\ Len(mFeeds[j]) < Len(mScripts[j]) - 1

(***************************************************************************)
(* Search pushdown (checked under SpecSearch)                              *)
(***************************************************************************)
\* C20: the posts read through the pushed-down query and then filtered with
\* Search.Matches are the posts of the feed that Search.Matches accepts.
C20_PushdownEquivalent ==
    sPc = "done" => sPushed = sMemory

(***************************************************************************)
(* Properties of paging (checked under SpecPage)                           *)
(***************************************************************************)
\* the dates of a sequence of rows never increase
DateDescending(out) == \A j, k \in 1..Len(out) : j < k => out[j].date >= out[k].date

\* C21: a cached feed read with before_id = b (and nothing else in the
\* search) delivers, in date-descending order and each once, exactly the
\* cached posts of the feed whose id is less than b
C21_BeforeIdPage ==
    (pPc = "read" /\ ~pNoReblogs) =>
        /\ {pOut[k].id : k \in 1..Len(pOut)} = {r.id : r \in {q \in pRows : q.id < pBefore}}
        /\ Len(pOut) = Cardinality({q \in pRows : q.id < pBefore})
        /\ DateDescending(pOut)

(***************************************************************************)
(* Properties of the consumers (checked under SpecServe)                   *)
(***************************************************************************)
\* the position of the first merged post whose id is <= before_id, 0 if none
CutAt ==
    LET at == {k \in 1..Len(hMerged) : hMerged[k].kind = "post" /\ hMerged[k].id <= hBefore}
    IN IF at = {} THEN 0 ELSE CHOOSE k \in at : \A j \in at : k <= j

\* the positions after position from of the posts that satisfy the search
\* predicate, up to the end of the feed
MatchingAfter(from) ==
    {k \in (from + 1)..Len(hMerged) :
        /\ hMerged[k].kind = "post" /\ hMerged[k].matches
        /\ \A j \in (from + 1)..k : hMerged[j].kind = "post"}

\* the first n elements of a set of positions, in order
RECURSIVE FirstOf(_, _)
FirstOf(ks, n) ==
    IF ks = {} \/ n = 0 THEN <<>>
    ELSE LET k == CHOOSE x \in ks : \A y \in ks : x <= y
         IN <<k>> \o FirstOf(ks \ {k}, n - 1)

\* C22: with before_id set the page holds, in merged order, the first limit
\* posts that satisfy the search predicate among the posts that follow the
\* first post whose id is <= before_id (that post and all before it are
\* discarded); it holds at most limit posts and no post failing the predicate
C22_BeforeIdConsumer ==
    (hPc \in {"render", "done"} /\ hBefore # 0) =>
        /\ hPage = (IF CutAt = 0 THEN <<>> ELSE FirstOf(MatchingAfter(CutAt), hLimit))
        /\ Len(hPage) <= hLimit
        /\ \A k \in 1..Len(hPage) : hMerged[hPage[k]].matches

(***************************************************************************)
(* Properties of the durable cache, continued (checked under Spec)         *)
(***************************************************************************)
\* C23 as stated: OpenCached derives the 150 ms deadline exactly when the
\* caller's context has no deadline and feed_infos has a row for the name
C23_DerivedIffNoDeadlineAndCached ==
    lastCall.op = "open" =>
        (lastCall.derived <=> (~lastCall.hasTimeout /\ lastCall.row # NoRow))

\* C23: OpenCached derives the 150 ms deadline exactly when ForceFresh is
\* off, the caller's context has no deadline and feed_infos has a row for
\* the name; the upstream attempt can run into that deadline only then, a
\* caller's deadline is never replaced and a name without a row is fetched
\* under the caller's context
C23_DerivedDeadline ==
    lastCall.op = "open" =>
        /\ lastCall.derived <=>
              (~lastCall.forceFresh /\ ~lastCall.hasTimeout /\ lastCall.row # NoRow)
        /\ lastCall.upstream = "deadline" => lastCall.derived
        /\ lastCall.hasTimeout => ~lastCall.derived
        /\ lastCall.row = NoRow => ~lastCall.derived

\* the upstream attempt of a cached name ran into the derived deadline
C23_Witness ==
    /\ lastCall.op = "open"
    /\ lastCall.derived
    /\ lastCall.upstream = "deadline"
    /\ lastCall.row # NoRow

\* C24: the cached_at that a successful Close of a caching feed stores in
\* feed_infos is the time at which that Close ran
C24_CachedAtIsCloseTime ==
    (/\ lastCall.op = "close"
     /\ handles[lastCall.h].kind = "caching"
     /\ lastCall.err = ""
     /\ lastCall.wtx = 1) =>
        feedInfos[handles[lastCall.h].uname].cachedAt = handles[lastCall.h].closedAt

(***************************************************************************)
(* Properties of the refresher and of feed lifecycles (under SpecServe)    *)
(***************************************************************************)
\* the refreshes in flight: from the start of anything.Open to the return of
\* the deferred Close
InFlight == {t \in 1..MaxTicks : rTicks[t].pc \in {"opening", "acquire", "iterate", "closing"}}

\* C25: at no time are more refreshes in flight than the semaphore has
\* places, over all ticks
C25_BoundedInFlight == Cardinality(InFlight) <= MaxConcurrentFeeds

\* no feed is closed twice, none that was not opened is closed, and when the
\* handler or a refresh has returned its feeds have been closed once
ClosedOnceSoFar ==
    /\ \A i \in FeedSel :
          /\ hCloses[i] <= 1
          /\ i \notin hOpened => hCloses[i] = 0
          /\ (hPc \in {"done", "aborted"} /\ i \in hOpened) => hCloses[i] = 1
    /\ \A t \in 1..MaxTicks :
          /\ rTicks[t].closes <= 1
          /\ ~rTicks[t].opened => rTicks[t].closes = 0
          /\ (rTicks[t].pc \in {"next", "done"} /\ rTicks[t].opened) => rTicks[t].closes = 1

\* C26: every feed the request handler or the refresher has opened is closed
\* exactly once: never twice, and eventually once, whether the iteration
\* ended with EOF or another error, stopped at the limit, or the handler
\* panicked
C26_ClosedExactlyOnce ==
    /\ []ClosedOnceSoFar
    /\ \A i \in FeedSel : (i \in hOpened) ~> (hCloses[i] = 1)
    /\ \A t \in 1..MaxTicks :
          (rTicks[t].pc = "acquire") ~> (rTicks[t].opened /\ rTicks[t].closes = 1)

\* the handler stopped at the limit before the end of the merged feed and
\* has closed both feeds it opened
C26_Witness ==
    /\ hPc = "done"
    /\ hOpened = FeedSel
    /\ ~hErr
    /\ \A i \in FeedSel : hCloses[i] = 1

(***************************************************************************)
(* Properties of concurrent tasks (checked under FairSpecTasks)            *)
(***************************************************************************)
\* no open has failed, every finished iteration ended with EOF, no Close has
\* made more than three commit attempts, and a task that has returned from
\* Close holds no lock
TasksSoFar ==
    \A k \in 1..MaxTasks :
        /\ cTasks[k].openErr = ""
        /\ cTasks[k].pc \in {"close", "exec", "commit", "closed"} => cTasks[k].last = "EOF"
        /\ cTasks[k].tries <= 3
        /\ cTasks[k].pc = "closed" => cLock # k

RuleHolds(i, n) ==
    CASE i = 1 -> HasSuffix(n, AtTwitter) \/ HasSuffix(n, AtT)
      [] i = 2 -> HasSuffix(n, AtInstagram) \/ HasSuffix(n, AtIg)
      [] i = 3 -> HasSuffix(n, AtYoutube) \/ HasSuffix(n, AtYt)
      [] i = 4 -> HasSuffix(n, AtTumblr)
      [] i = 5 -> Contains(n, TiktokHost) \/ HasSuffix(n, AtTiktok)
      [] i = 6 -> Contains(n, Ao3Host) \/ HasSuffix(n, AtAo3)
      [] i = 7 -> Contains(n, <<"@">>) \/ Contains(n, <<".">>)
      [] i = 8 -> TRUE

\* the adapter rule i gives
RuleAdapter ==
    <<"nitter", "bibliogram", "youtube", "tumblr", "tiktok", "ao3", "rss", "tumblr">>

\* C28: the dispatcher calls the caching layer exactly once, with the adapter
\* of the first rule that holds of the name, and calls no adapter itself
C28_FirstMatchingRule ==
    aPc = "done" =>
        /\ Len(aCached) = 1
        /\ \E i \in 1..8 :
              /\ RuleHolds(i, aName)
              /\ \A j \in 1..(i - 1) : ~RuleHolds(j, aName)
              /\ aCached[1] = RuleAdapter[i]
        /\ aDirect = 0

\* a name that ends in @tumblr and contains "." went to the tumblr adapter
C28_Witness ==
    /\ aPc = "done"
    /\ HasSuffix(aName, AtTumblr)
    /\ Contains(aName, <<".">>)
    /\ aCached = <<"tumblr">>


(***************************************************************************)
(* Properties of Search.Matches (checked under SpecMatch)                  *)
(***************************************************************************)
\* no_reblogs is false or p is not a reblog
NotExcludedReblog == ~qSearch.noReblogs \/ ~IsReblog(qPost)

\* no tag of p appears in exclude_tags
NoExcludedTag ==
    \A i \in 1..Len(qPost.tags), j \in 1..Len(qSearch.excludeTags) :
        qPost.tags[i] # qSearch.excludeTags[j]

\* every entry of tags is among p's tags, compared case-insensitively
HasAllTags ==
    \A i \in 1..Len(qSearch.tags) :
        \E j \in 1..Len(qPost.tags) : Lower(qPost.tags[j]) = Lower(qSearch.tags[i])

\* the pattern built from the terms exists and matches the title or the description
PatternMatches(terms) ==
    /\ Compiles(terms)
    /\ TermsRE(terms, qPost.title) \/ TermsRE(terms, qPost.description)

\* the term is a substring of the title or the description, whatever the case
TermIsSubstring(term) ==
    \/ Contains(Lower(qPost.title), term)
    \/ Contains(Lower(qPost.description), term)

\* C29 (as stated): for an active Search, Matches(p) is true if and only if
\* p is no excluded reblog, has no excluded tag, has every tag, the terms
\* are empty or the terms pattern matches the title or the description, and
\* the excluded terms are empty or the exclusion pattern matches neither.
C29_MatchesIffPatterns ==
    (qPc = "done" /\ qSearch.isActive) =>
        (qResult <=>
            /\ NotExcludedReblog
            /\ NoExcludedTag
            /\ HasAllTags
            /\ qSearch.terms = <<>> \/ PatternMatches(qSearch.terms)
            /\ qSearch.excludeTerms = <<>> \/ ~PatternMatches(qSearch.excludeTerms))

\* C29 (amended): as C29, where a pattern that does not compile is replaced
\* by a search for substrings: every term has to be a substring of the
\* lower-cased title or description, and no excluded term may be one.
C29_MatchesIff ==
    (qPc = "done" /\ qSearch.isActive) =>
        (qResult <=>
            /\ NotExcludedReblog
            /\ NoExcludedTag
            /\ HasAllTags
            /\ \/ qSearch.terms = <<>>
               \/ IF Compiles(qSearch.terms)
                  THEN PatternMatches(qSearch.terms)
                  ELSE \A i \in 1..Len(qSearch.terms) : TermIsSubstring(qSearch.terms[i])
            /\ \/ qSearch.excludeTerms = <<>>
               \/ IF Compiles(qSearch.excludeTerms)
                  THEN ~PatternMatches(qSearch.excludeTerms)
                  ELSE \A i \in 1..Len(qSearch.excludeTerms) :
                          ~TermIsSubstring(qSearch.excludeTerms[i]))

\* a search with tags, a compiled pattern, excluded tags and excluded terms
\* that are no pattern has accepted a post that is a reblog
C29_Witness ==
    /\ qPc = "done" /\ qSearch.isActive /\ qResult
    /\ Len(qSearch.tags) = 2 /\ qSearch.excludeTags # <<>>
    /\ qSearch.terms # <<>> /\ Compiles(qSearch.terms)
    /\ qSearch.excludeTerms # <<>> /\ ~Compiles(qSearch.excludeTerms)
    /\ IsReblog(qPost)

(***************************************************************************)
(* Properties of the in-memory cache (checked under SpecLru)               *)
(***************************************************************************)
\* the recording wrappers of a name that have been closed
ClosedWrappers(name) ==
    {h \in 1..Len(lFeeds) :
        lFeeds[h].kind = "caching" /\ lFeeds[h].name = name /\ lFeeds[h].closed # 0}

\* the one of them that was closed last
LastClosedWrapper(name) ==
    CHOOSE h \in ClosedWrappers(name) :
        \A g \in ClosedWrappers(name) : lFeeds[g].closed <= lFeeds[h].closed

\* the last step opened the name within CacheTime of the cached_at of the
\* wrapper closed last
OpenedAfterClose(name) ==
    /\ lLast.op = "open" /\ lLast.name = name
    /\ ClosedWrappers(name) # {}
    /\ lNow - lFeeds[LastClosedWrapper(name)].cachedAt < CacheTime

\* the open returned a replay of the posts the wrapper observed, and the
\* adapter was not asked
ReplaysWrapper(name) ==
    /\ lLast.hit /\ ~lLast.adapter /\ lLast.h # 0
    /\ lFeeds[lLast.h].kind = "cached"
    /\ lFeeds[lLast.h].from = LastClosedWrapper(name)
    /\ lFeeds[lLast.h].posts = lFeeds[LastClosedWrapper(name)].emitted

\* every replay feed emits the posts its wrapper observed, in their order,
\* beginning with the first
ReplaysInOrder ==
    \A h \in 1..Len(lFeeds) :
        lFeeds[h].kind = "cached" =>
            lFeeds[h].emitted \o lFeeds[h].posts = lFeeds[lFeeds[h].from].emitted

\* C30 (as stated): after a recording wrapper of a name has been closed,
\* every open of that name within CacheTime returns a replay feed that emits
\* exactly the posts the wrapper observed, in order from the first post, and
\* does not invoke the adapter.
C30_ReplayAfterClose ==
    /\ \A name \in LruNames : OpenedAfterClose(name) => ReplaysWrapper(name)
    /\ ReplaysInOrder

\* C30 (amended): the same for every open at which the entry of the name is
\* still in the LRU, that is, has not been evicted by the entries of other
\* names.
C30_ReplayWhileCached ==
    /\ \A name \in LruNames :
          (OpenedAfterClose(name) /\ LruIndex(lCache, name) # 0) => ReplaysWrapper(name)
    /\ ReplaysInOrder

\* a second replay of a name has just been opened while the first, not yet
\* closed, has already emitted a post
C30_Witness ==
    /\ lLast.op = "open" /\ lLast.hit
    /\ lFeeds[lLast.h].posts # <<>>
    /\ \E g \in 1..Len(lFeeds) :
          /\ g # lLast.h
          /\ lFeeds[g].kind = "cached" /\ lFeeds[g].name = lLast.name
          /\ lFeeds[g].closed = 0 /\ lFeeds[g].emitted # <<>>

(***************************************************************************)
(* Properties of ParseTerms (checked under SpecParse and FairSpecParse)    *)
(***************************************************************************)
\* the token is put last into the one list its prefix names
PutInList(lists, exclude, tag, text) ==
    IF text = <<>> THEN lists
    ELSE IF exclude /\ tag THEN [lists EXCEPT !.excludeTags = Append(@, Lower(text))]
    ELSE IF tag THEN [lists EXCEPT !.tags = Append(@, Lower(text))]
    ELSE IF exclude THEN [lists EXCEPT !.excludeTerms = Append(@, Lower(text))]
    ELSE [lists EXCEPT !.terms = Append(@, Lower(text))]

\* The tokens of a raw search, each put into its list: tokens are separated
\* by spaces; after the prefix, a quote that has a matching quote later
\* begins a phrase that is one token; any other quote is a character of
\* its token.
RECURSIVE TokenLists(_, _)
TokenLists(raw, lists) ==
    IF raw = <<>> THEN lists
    ELSE IF raw[1] = " " THEN TokenLists(Tail(raw), lists)
    ELSE LET exclude == raw[1] = "-"
             r1 == IF exclude THEN Tail(raw) ELSE raw
             tag == r1 # <<>> /\ r1[1] = "#"
             r2 == IF tag THEN Tail(r1) ELSE r1
             quoted == /\ r2 # <<>> /\ r2[1] \in QuoteChars
                       /\ \E k \in 2..Len(r2) : r2[k] = r2[1]
             close == CHOOSE k \in 2..Len(r2) :
                         r2[k] = r2[1] /\ \A j \in 2..(k - 1) : r2[j] # r2[1]
             space == IF \E k \in 1..Len(r2) : r2[k] = " "
                      THEN CHOOSE k \in 1..Len(r2) :
                              r2[k] = " " /\ \A j \in 1..(k - 1) : r2[j] # " "
                      ELSE Len(r2) + 1
             text == IF quoted THEN SubSeq(r2, 2, close - 1) ELSE SubSeq(r2, 1, space - 1)
             rest == IF quoted THEN SubSeq(r2, close + 1, Len(r2))
                     ELSE SubSeq(r2, space + 1, Len(r2))
         IN  TokenLists(rest, PutInList(lists, exclude, tag, text))

NoLists == [terms |-> <<>>, tags |-> <<>>, excludeTerms |-> <<>>, excludeTags |-> <<>>]

\* C31 (as stated): ParseTerms splits the raw search into tokens separated
\* by spaces, a phrase in matching quotes being one token and an unmatched
\* quote an ordinary character, and puts each token, lower-cased and in
\* order, into the one list its prefix names: -# ExcludeTags, # Tags,
\* - ExcludeTerms, none Terms.
C31_TokensIntoLists ==
    tPc = "done" =>
        [terms |-> tSearch.terms, tags |-> tSearch.tags,
         excludeTerms |-> tSearch.excludeTerms, excludeTags |-> tSearch.excludeTags]
            = TokenLists(tInput, NoLists)

\* C40 (as stated): ParseTerms returns a Search for every input string: it
\* never slices out of range and it consumes the input in finitely many
\* steps.
C40_ParseTermsReturns == <>(tPc = "done")

(***************************************************************************)
(* Properties of nextPostsGroup (checked under SpecGroup)                  *)
(***************************************************************************)
\* nextPostsGroup has been called
GroupCalled == gPc \in {"loop", "done"}

\* the posts at the head of gIn that have the author of its first post
LeadingRun ==
    IF gIn = <<>> THEN 0
    ELSE CHOOSE n \in 1..Len(gIn) :
            /\ \A k \in 1..n : gIn[k].author = gIn[1].author
            /\ n = Len(gIn) \/ gIn[n + 1].author # gIn[1].author

\* group followed by rest is posts, group is the whole leading run when the
\* run has at least groupSize posts and the first post otherwise, and all
\* posts of group have one author
SplitsAtRun ==
    /\ gGroup \o gRest = gIn
    /\ gIn # <<>> => gGroup # <<>>
    /\ Len(gGroup) = (IF LeadingRun >= gSize THEN LeadingRun
                      ELSE IF gIn = <<>> THEN 0 ELSE 1)
    /\ \A j, k \in 1..Len(gGroup) : gGroup[j].author = gGroup[k].author

\* C32 (as stated): nextPostsGroup splits posts into group and rest as
\* SplitsAtRun says, and the first post of a non-empty rest has a different
\* author than the posts of group.
C32_GroupThenOtherAuthor ==
    GroupCalled =>
        /\ SplitsAtRun
        /\ gRest # <<>> => gRest[1].author # gGroup[1].author

\* C32 (amended): the first post of a non-empty rest has a different author
\* than the posts of group when group is the whole leading run; when the
\* run is shorter than groupSize and group is only its first post, rest
\* begins with the remainder of the run.
C32_GroupSplitsAtRun ==
    GroupCalled =>
        /\ SplitsAtRun
        /\ (gRest # <<>> /\ Len(gGroup) = LeadingRun) => gRest[1].author # gGroup[1].author
        /\ (gRest # <<>> /\ Len(gGroup) < LeadingRun) => gRest[1].author = gGroup[1].author

\* a run of two posts, shorter than groupSize, has been split after its
\* first post, before a post of another author
C32_Witness ==
    /\ GroupCalled /\ gSize = 3 /\ LeadingRun = 2
    /\ Len(gGroup) = 1 /\ Len(gRest) >= 2
    /\ gRest[2].author # gGroup[1].author

(***************************************************************************)
(* Errors of children and end-of-feed (checked under SpecMerge)            *)
(***************************************************************************)
\* C33: whenever Next of the merged feed returns end-of-feed, every child
\* has itself returned end-of-feed; an error of a child is never reported
\* to the consumer as end-of-feed.
C33_EndOfFeedOnlyWhenChildrenEnded ==
    (mPc = "idle" /\ mResult = "EOF") => \A i \in FeedIdx : mErrors[i] = "EOF"

(***************************************************************************)
(* Properties of the next-page link (checked under SpecFollow)             *)
(***************************************************************************)
\* the posts of the feed directly after the first page, at most limit of them
AfterFirstPage ==
    SubSeq(nFeed, Len(nPage1) + 1,
           IF Len(nPage1) + nLimit <= Len(nFeed) THEN Len(nPage1) + nLimit ELSE Len(nFeed))

\* C34: following the next-page link of a page on a single feed whose ids
\* decrease with date yields exactly the posts that come directly after the
\* page in feed order, none skipped and none repeated, whether the feed is
\* served live or from the cache.
C34_NextPageFollows == nPc = "page2" => nPage2 = AfterFirstPage

(***************************************************************************)
(* Properties of the refresher on the durable cache (checked under         *)
(* SpecBackground and FairSpecBackground)                                  *)
(***************************************************************************)
\* C35: after refreshFn has processed a stale name (opened, iterated and
\* closed it, or failed to open it, the error-recording goroutines having
\* run), the name is not listed as stale again until CacheTime has elapsed
\* since that refreshFn started.
C35_NotStaleAgain ==
    \A n \in ReqNames :
        (bDone[n] >= 0 /\ tasks = {} /\ now - bDone[n] < CacheTime)
            => n \notin ListFeedsOlderThan(feedInfos, now - CacheTime)

\* C36: when a row of feed_infos holds a non-empty error and the upstream has
\* become healthy (and the row can become stale before the clock stops), then
\* with the refresher running the error of the row is eventually cleared.
C36_ErrorEventuallyCleared ==
    \A n \in ReqNames :
        (RowHasError(feedInfos[n]) /\ bUp.ok /\ tasks = {}
            /\ feedInfos[n].cachedAt + CacheTime < MaxTime)
          ~> ~RowHasError(feedInfos[n])
(***************************************************************************)
(* Names that are not canonical (checked under Spec)                       *)
(***************************************************************************)
\* the second open asks for the name of the first feed, which was read to its
\* end and closed without error less than CacheTime ago
ReopenedAfterSave ==
    /\ lastCall.op = "open"
    /\ lastCall.h = 2
    /\ ~lastCall.forceFresh
    /\ handles[1].kind = "caching"
    /\ handles[1].state = "closed"
    /\ handles[1].last = "EOF"
    /\ handles[1].closeErr = ""
    /\ handles[2].name = handles[1].name
    /\ now - handles[1].cachedAt < CacheTime

\* C37: for a requested name whose adapter reports another, canonical name
\* (foo@tumblr, reported as foo), after the feed and its posts were iterated
\* and closed with success under the requested name, the next open of the requested name
\* without ForceFresh within CacheTime is a cache hit: the upstream is not
\* invoked and the feed emits the same posts.
C37_NonCanonicalHit ==
    (ReopenedAfterSave /\ handles[1].posts # <<>> /\ Canon(handles[1].name) # handles[1].name)
        => /\ lastCall.upstream = "notcalled"
           /\ handles[2].kind = "cached"
           /\ ScanRows(handles[2].rows, FALSE) = handles[1].posts

(***************************************************************************)
(* The deadline of the cached rows (checked under SpecDeadline)            *)
(***************************************************************************)
\* C38: once OpenCached has returned a cached feed for a request whose
\* context has no deadline, Next reads all of its rows however much time
\* passes between the open and the reads: no Next returns an error, and
\* end-of-feed comes only after the last row.
C38_CachedRowsOutliveDeadline ==
    (lastCall.op = "next" /\ handles[lastCall.h].kind = "cached")
        => /\ handles[lastCall.h].last # "error"
           /\ handles[lastCall.h].last = "EOF" => handles[lastCall.h].rows = <<>>

(***************************************************************************)
(* Properties of the open tasks (checked under SpecOpens)                  *)
(***************************************************************************)
SomeOpenFails == \E i \in OpenFeedIds : ~oOk[i]

\* C39: when some of the selected feeds fail to open, the handler goes on to
\* serve the page in every order of the open tasks, and the page reports an
\* open error and is made of the merged feeds that opened.
C39_OpenErrorsReported ==
    SomeOpenFails
        => /\ oHandler # "fatal"
           /\ oHandler = "serve"
                => /\ oReport.err # 0
                   /\ oMerged = {i \in OpenFeedIds : oOk[i]}

====
